---- MODULE Spec2Model ----
(***************************************************************************)
(* Verification model of the lovable-ui generation session, SSE frame      *)
(* decoder, edit normalizer and checkpoint/apply pipeline.                 *)
(*                                                                         *)
(* Text is modelled as a sequence of symbols.  In the decoder part the     *)
(* five-character marker "data:" is one symbol, DATA; CR and LF are the    *)
(* carriage return and the line feed.                                      *)
(***************************************************************************)
EXTENDS Integers, Sequences, FiniteSets, TLC

VARIABLES
    \* ---- SSE decoder (lib/client/sandbox-checkpoints.ts, SseParserState)
    sseText,      \* the whole stream text handed to the decoder
    sseRest,      \* the part of sseText not yet delivered as a chunk
    sseBuffer,    \* SseParserState.buffer
    sseFrames,    \* frames returned so far, in order
    ssePc,        \* "feeding" | "flushed"
    \* ---- edit normalizer (app/api/sandbox/[sandboxId]/edit/route.ts)
    normInput,    \* the candidate array handed to normalizeCandidateEdits
    normResult,   \* its outcome: [threw, edits]
    normPc,       \* "input" | "done"
    \* ---- generation session (hooks/useGenerationSession.ts)
    state,              \* GenerationSessionState held by useState
    abortControllerRef, \* 0 (null) or the run whose controller is tracked
    latestPromptRef,    \* last prompt handed to resetForRun
    messageCounterRef,  \* counter behind createMessageId
    requestIdRef,       \* id of the newest run
    pc,                 \* per run: where its start() call is suspended
    aborted,            \* per run: controller.signal.aborted
    receivedDone,       \* per run: the local receivedDone
    nReads,             \* chunks delivered so far, over all runs
    parserStateRef,     \* SseParserState.buffer of the hook: <<>> when empty
    lastStep,           \* the step just taken: [op, run, frames]
    \* ---- generate page: edit plan, apply, checkpoints, restore
    workspace,              \* the sandbox project: path -> content or Absent
    checkpoints,            \* the checkpoint list held by useState
    storage,                \* the list last stored under the sandbox's key
    lastApplyCheckpointId,  \* 0 (null) or a checkpoint id
    pendingEditPlan,        \* NoPlan (null) or [proposedEdits, previews]
    selectedEditPaths,      \* set of selected preview paths
    isApplyingEdit,
    applyPc,                \* where handleApplyPreparedEdits is suspended
    applyCall,              \* the apply request and the server's progress
    restoringCheckpointId,  \* 0 (null) or the id being restored
    restoreJob,             \* the restore in progress
    checkpointCount,        \* checkpoints created so far (behind their ids)
    pageStep,               \* the step just taken on the page: [op, cp, ok]
    \* ---- edit route (app/api/sandbox/[sandboxId]/edit/route.ts), one POST
    routeBody,      \* the request body: [mode, proposedEdits]
    routeModel,     \* the edits array the model answers with, if asked
    routeFiles,     \* the sandbox project: path -> content or Absent
    routePc,        \* where POST is suspended
    route,          \* its locals: normalizedEdits, previews, effectiveEdits, ...
    routeResponse,  \* the JSON answer, NoResponse before
    \* ---- checkpoint list of one sandbox id over many creations
    listCheckpoints,  \* the list held by useState
    listStorage,      \* the list last stored under the sandbox's key
    listCreated,      \* checkpoints created so far
    \* ---- createUnifiedDiff on one pair of texts
    diffBefore,     \* the text before, as its list of lines
    diffAfter,      \* the text after
    diffResult,     \* what createUnifiedDiff returned
    diffPc,         \* "input" | "done"
    \* ---- restoreProjectFilesToSandbox (lib/client/sandbox-checkpoints.ts)
    poolFiles,        \* the files argument: the paths of the snapshot files
    poolLimit,        \* the concurrency in use
    poolIndex,        \* index of withConcurrency (0-based)
    poolWorkers,      \* per runWorker call: [pc, item]
    poolWrites,       \* the PUT requests issued so far: [path, outcome]
    poolFailedPaths,  \* failedPaths
    poolResult,       \* [status, failedPaths, restoredCount] of the call
    \* ---- checkpoint store (lib/client/sandbox-checkpoints.ts), localStorage
    storeLocal,       \* per sandbox id: the item stored under its key
    storePersisted,   \* per sandbox id: the list last handed to persist
    storeLoaded,      \* the last load: [sandboxId, list]
    storePc,          \* "idle" | "persisted" | "loaded"
    \* ---- collectProjectFilesFromSandbox (lib/client/sandbox-checkpoints.ts)
    collectListOk,     \* whether the file listing answers ok
    collectPaths,      \* allPaths: per listed file its read outcome and content
    collectOptions,    \* options: [maxFiles, maxBytes], NotGiven for none
    collectIndex,      \* position of the for loop in targetPaths (1-based)
    collectFiles,      \* files
    collectTotalBytes, \* totalBytes
    collectTruncated,  \* truncated
    collectPc,         \* "list" | "read" | "returned" | "thrown"
    \* ---- generation route (app/api/generate-daytona/route.ts), one request
    genStdout,      \* stdout data events still to come: lists of lines
    genStderr,      \* stderr data events still to come
    genChild,       \* "running" | "exit0" | "exit1"
    genHandlers,    \* the data handlers started: [lines, pc]
    genMain,        \* where the async function of the route is suspended
    genPreviewUrl,  \* previewUrl
    genOut,         \* the frames handed to the writer, in order
    genWrites,      \* owners of the writes not yet resolved, oldest first
    genClosed,      \* writer.close() was called
    \* ---- rateLimit (lib/server/request.ts)
    buckets,        \* per key of interest: its Bucket or NoBucket
    otherBuckets,   \* the buckets of all other keys: [n, resetAt]
    limitOptions,   \* options: [limit, windowMs]
    limitNow,       \* Date.now() at the last call
    limitCalls      \* the calls made so far: [key, now, result]

sseVars == <<sseText, sseRest, sseBuffer, sseFrames, ssePc>>
normVars == <<normInput, normResult, normPc>>
sessVars == <<state, abortControllerRef, latestPromptRef, messageCounterRef,
              requestIdRef, pc, aborted, receivedDone, nReads, parserStateRef,
              lastStep>>

pageVars == <<workspace, checkpoints, storage, lastApplyCheckpointId,
              pendingEditPlan, selectedEditPaths, isApplyingEdit, applyPc,
              applyCall, restoringCheckpointId, restoreJob, checkpointCount,
              pageStep>>

routeVars == <<routeBody, routeModel, routeFiles, routePc, route,
               routeResponse>>
listVars == <<listCheckpoints, listStorage, listCreated>>
diffVars == <<diffBefore, diffAfter, diffResult, diffPc>>
poolVars == <<poolFiles, poolLimit, poolIndex, poolWorkers, poolWrites,
              poolFailedPaths, poolResult>>
storeVars == <<storeLocal, storePersisted, storeLoaded, storePc>>
collectVars == <<collectListOk, collectPaths, collectOptions, collectIndex,
                 collectFiles, collectTotalBytes, collectTruncated, collectPc>>
genVars == <<genStdout, genStderr, genChild, genHandlers, genMain,
             genPreviewUrl, genOut, genWrites, genClosed>>
limitVars == <<buckets, otherBuckets, limitOptions, limitNow, limitCalls>>

vars == <<sseVars, normVars, sessVars, pageVars, routeVars, listVars, diffVars,
          poolVars, storeVars,
        collectVars, genVars, limitVars>>

nonSseVars == <<normVars, sessVars, pageVars, routeVars, listVars, diffVars,
                poolVars, storeVars,
        collectVars, genVars, limitVars>>
nonNormVars == <<sseVars, sessVars, pageVars, routeVars, listVars, diffVars,
                 poolVars, storeVars,
        collectVars, genVars, limitVars>>
nonSessVars == <<sseVars, normVars, pageVars, routeVars, listVars, diffVars,
                 poolVars, storeVars,
        collectVars, genVars, limitVars>>
nonPageVars == <<sseVars, normVars, sessVars, routeVars, listVars, diffVars,
                 poolVars, storeVars,
        collectVars, genVars, limitVars>>
nonRouteVars == <<sseVars, normVars, sessVars, pageVars, listVars, diffVars,
                  poolVars, storeVars,
        collectVars, genVars, limitVars>>
nonListVars == <<sseVars, normVars, sessVars, pageVars, routeVars, diffVars,
                 poolVars, storeVars,
        collectVars, genVars, limitVars>>
nonPoolVars == <<sseVars, normVars, sessVars, pageVars, routeVars, listVars,
                 diffVars, storeVars,
        collectVars, genVars, limitVars>>
nonStoreVars == <<sseVars, normVars, sessVars, pageVars, routeVars, listVars,
                  diffVars, poolVars,
        collectVars, genVars, limitVars>>
nonCollectVars == <<sseVars, normVars, sessVars, pageVars, routeVars, listVars,
                    diffVars, poolVars, storeVars, genVars, limitVars>>
nonGenVars == <<sseVars, normVars, sessVars, pageVars, routeVars, listVars,
                diffVars, poolVars, storeVars, collectVars, limitVars>>
nonLimitVars == <<sseVars, normVars, sessVars, pageVars, routeVars, listVars,
                  diffVars, poolVars, storeVars, collectVars, genVars>>
nonDiffVars == <<sseVars, normVars, sessVars, pageVars, routeVars, listVars,
                 poolVars, storeVars,
        collectVars, genVars, limitVars>>

-----------------------------------------------------------------------------
(* Generic sequence helpers *)

RECURSIVE Concat(_)
Concat(ss) == IF ss = <<>> THEN <<>> ELSE Head(ss) \o Concat(Tail(ss))

RECURSIVE JoinWith(_, _)
JoinWith(ss, sep) ==
    IF ss = <<>> THEN <<>>
    ELSE IF Len(ss) = 1 THEN ss[1]
    ELSE ss[1] \o <<sep>> \o JoinWith(Tail(ss), sep)

RECURSIVE SplitOn(_, _)
\* String.prototype.split(sep) for a one-symbol separator: always at least
\* one piece, empty pieces kept.
SplitOn(s, sep) ==
    IF \A i \in 1..Len(s) : s[i] # sep THEN <<s>>
    ELSE LET i == CHOOSE j \in 1..Len(s) :
                      s[j] = sep /\ \A k \in 1..(j-1) : s[k] # sep
         IN <<SubSeq(s, 1, i-1)>> \o SplitOn(SubSeq(s, i+1, Len(s)), sep)

SeqsUpTo(S, n) == UNION {[1..k -> S] : k \in 0..n}

-----------------------------------------------------------------------------
(* Parts of the state that a specification does not exercise stay idle *)

\* null in a field of the session state; the fields hold texts (sequences)
Null == <<>>

MaxRuns == 2

Runs == 1..MaxRuns

INITIAL_STATE ==
    [messages |-> <<>>, previewUrl |-> Null, sandboxId |-> Null,
     lifecycle |-> "idle", stage |-> "queued", error |-> Null,
     lastProgress |-> Null, parseWarnings |-> 0]

SessIdle ==
    /\ state = INITIAL_STATE
    /\ abortControllerRef = 0
    /\ latestPromptRef = <<>>
    /\ messageCounterRef = 0
    /\ requestIdRef = 0
    /\ pc = [r \in Runs |-> "idle"]
    /\ aborted = [r \in Runs |-> FALSE]
    /\ receivedDone = [r \in Runs |-> FALSE]
    /\ parserStateRef = <<>>
    /\ nReads = 0
    /\ lastStep = [op |-> "init", run |-> 0, frames |-> <<>>]

\* the project's paths, in the order the file listing returns them
PathOrder == << <<"a">>, <<"b">> >>

Paths == {PathOrder[i] : i \in 1..Len(PathOrder)}

\* no file at a path
Absent == <<"<absent>">>

EmptyWorkspace == [p \in Paths |-> Absent]

NoCheckpoint ==
    [id |-> 0, label |-> "", files |-> EmptyWorkspace, truncated |-> FALSE,
     at |-> EmptyWorkspace]

NoPlan == [proposedEdits |-> <<>>, previews |-> <<>>]

NoCall == [edits |-> <<>>, backupId |-> 0, serverEdits |-> <<>>,
           applied |-> <<>>, failed |-> <<>>, ok |-> FALSE]

NoJob == [checkpoint |-> NoCheckpoint, remaining |-> {}, failedPaths |-> {},
          undo |-> FALSE]

PageStep(op, cp, ok) == [op |-> op, cp |-> cp, ok |-> ok]

\* a step that no property looks back at
OtherStep == PageStep("other", NoCheckpoint, FALSE)

PageIdle ==
    /\ workspace = EmptyWorkspace
    /\ checkpoints = <<>>
    /\ storage = <<>>
    /\ lastApplyCheckpointId = 0
    /\ pendingEditPlan = NoPlan
    /\ selectedEditPaths = {}
    /\ isApplyingEdit = FALSE
    /\ applyPc = "idle"
    /\ applyCall = NoCall
    /\ restoringCheckpointId = 0
    /\ restoreJob = NoJob
    /\ checkpointCount = 0
    /\ pageStep = OtherStep

SseIdle ==
    /\ sseText = <<>> /\ sseRest = <<>> /\ sseBuffer = <<>>
    /\ sseFrames = <<>> /\ ssePc = "idle"

NormIdle ==
    /\ normInput = <<>> /\ normResult = [threw |-> FALSE, edits |-> <<>>]
    /\ normPc = "idle"

NoBody == [mode |-> "", proposedEdits |-> <<>>]

NoRoute ==
    [normalizedEdits |-> <<>>, fromModel |-> FALSE, previews |-> <<>>,
     effectiveEdits |-> <<>>, next |-> 1, applied |-> <<>>, failed |-> <<>>]

NoResponse ==
    [status |-> 0, mode |-> "", error |-> "", proposedEdits |-> <<>>,
     previews |-> <<>>, applied |-> <<>>, failed |-> <<>>]

RouteIdle ==
    /\ routeBody = NoBody /\ routeModel = <<>>
    /\ routeFiles = EmptyWorkspace
    /\ routePc = "idle" /\ route = NoRoute /\ routeResponse = NoResponse

ListIdle ==
    /\ listCheckpoints = <<>> /\ listStorage = <<>> /\ listCreated = 0

NoDiff == [diff |-> <<>>, additions |-> 0, deletions |-> 0, changed |-> FALSE]

DiffIdle ==
    /\ diffBefore = <<>> /\ diffAfter = <<>>
    /\ diffResult = NoDiff /\ diffPc = "idle"

\* the sandbox ids under which checkpoint lists are stored
SandboxIds == {<<"sb1">>, <<"sb2">>}

\* options?.concurrency ?? 4
DEFAULT_CONCURRENCY == 4

NoWorker == [pc |-> "unused", item |-> 0]

NoResult == [status |-> "none", failedPaths |-> <<>>, restoredCount |-> 0]

PoolIdle ==
    /\ poolFiles = <<>> /\ poolLimit = 0 /\ poolIndex = 0
    /\ poolWorkers = [w \in 1..DEFAULT_CONCURRENCY |-> NoWorker]
    /\ poolWrites = <<>> /\ poolFailedPaths = <<>>
    /\ poolResult = NoResult

NoLoad == [sandboxId |-> <<>>, list |-> <<>>]

StoreIdle ==
    /\ storeLocal = [s \in SandboxIds |-> [k |-> "null", items |-> <<>>]]
    /\ storePersisted = [s \in SandboxIds |-> [done |-> FALSE, list |-> <<>>]]
    /\ storeLoaded = NoLoad
    /\ storePc = "idle"

\* options?.maxFiles ?? 120, options?.maxBytes ?? 2_000_000
DEFAULT_MAX_FILES == 120
DEFAULT_MAX_BYTES == 2000000

\* an option that is not given
NotGiven == -1

CollectIdle ==
    /\ collectListOk = FALSE /\ collectPaths = <<>>
    /\ collectOptions = [maxFiles |-> NotGiven, maxBytes |-> NotGiven]
    /\ collectIndex = 0 /\ collectFiles = <<>>
    /\ collectTotalBytes = 0 /\ collectTruncated = FALSE
    /\ collectPc = "idle"

GenIdle ==
    /\ genStdout = <<>> /\ genStderr = <<>> /\ genChild = "none"
    /\ genHandlers = <<>> /\ genMain = "idle" /\ genPreviewUrl = <<>>
    /\ genOut = <<>> /\ genWrites = <<>> /\ genClosed = FALSE

\* the keys whose buckets are followed one by one
LimitKeys == {"k1", "k2"}

NoBucket == [count |-> 0, resetAt |-> 0]

LimitIdle ==
    /\ buckets = [k \in LimitKeys |-> NoBucket]
    /\ otherBuckets = [n |-> 0, resetAt |-> 0]
    /\ limitOptions = [limit |-> 0, windowMs |-> 0]
    /\ limitNow = 0 /\ limitCalls = <<>>

MoreIdle == CollectIdle /\ GenIdle /\ LimitIdle

OtherIdle ==
    RouteIdle /\ ListIdle /\ DiffIdle /\ PoolIdle /\ StoreIdle /\ MoreIdle

-----------------------------------------------------------------------------
(* SSE frame decoder *)

DATA == "data:"
CR == "\r"
LF == "\n"
SP == " "

MaxSseLen == 6

SseSymbols == {DATA, "x", CR, LF}

IsWhitespace(c) == c \in {SP, CR, LF}

RECURSIVE normalizeChunk(_)
\* chunk.replace(/\r\n/g, "\n")
normalizeChunk(chunk) ==
    IF chunk = <<>> THEN <<>>
    ELSE IF Len(chunk) >= 2 /\ chunk[1] = CR /\ chunk[2] = LF
         THEN <<LF>> \o normalizeChunk(SubSeq(chunk, 3, Len(chunk)))
         ELSE <<chunk[1]>> \o normalizeChunk(Tail(chunk))

RECURSIVE trimStart(_)
trimStart(s) ==
    IF s # <<>> /\ IsWhitespace(Head(s)) THEN trimStart(Tail(s)) ELSE s

\* buffer.trim() is empty
IsBlank(s) == \A i \in 1..Len(s) : IsWhitespace(s[i])

startsWithData(line) == line # <<>> /\ Head(line) = DATA

dataPayload(line) == trimStart(Tail(line))

\* rawEvent.split("\n").filter(startsWith "data:").map(slice(5).trimStart())
dataLinesOf(rawEvent) ==
    LET lines == SelectSeq(SplitOn(rawEvent, LF), startsWithData)
    IN [i \in 1..Len(lines) |-> dataPayload(lines[i])]

\* buffer.indexOf("\n\n"), 1-based; 0 when absent
delimiterIndex(buf) ==
    IF \E i \in 1..(Len(buf)-1) : buf[i] = LF /\ buf[i+1] = LF
    THEN CHOOSE i \in 1..(Len(buf)-1) :
            /\ buf[i] = LF /\ buf[i+1] = LF
            /\ \A j \in 1..(i-1) : ~(buf[j] = LF /\ buf[j+1] = LF)
    ELSE 0

RECURSIVE extractFrames(_, _)
\* the while (true) loop of consumeSseDataFrames
extractFrames(buf, frames) ==
    LET d == delimiterIndex(buf) IN
    IF d = 0 THEN [buffer |-> buf, frames |-> frames]
    ELSE LET rawEvent == SubSeq(buf, 1, d-1)
             rest == SubSeq(buf, d+2, Len(buf))
             dataLines == dataLinesOf(rawEvent)
         IN extractFrames(rest,
                IF Len(dataLines) > 0
                THEN Append(frames, JoinWith(dataLines, LF))
                ELSE frames)

consumeSseDataFrames(buffer, chunk) ==
    extractFrames(buffer \o normalizeChunk(chunk), <<>>)

\* flushSseDataFrames that returns every data line as a frame of its own
flushSseDataFrames_FramePerLine(buffer) ==
    [buffer |-> <<>>, frames |-> dataLinesOf(buffer)]

flushSseDataFrames(buffer) ==
    IF IsBlank(buffer) THEN [buffer |-> <<>>, frames |-> <<>>]
    ELSE LET dataLines == dataLinesOf(buffer)
         IN [buffer |-> <<>>,
             frames |-> IF Len(dataLines) > 0
                        THEN <<JoinWith(dataLines, LF)>> ELSE <<>>]

\* the whole text as one chunk, then flush
SingleChunkFrames(text) ==
    LET c == consumeSseDataFrames(<<>>, text)
    IN c.frames \o flushSseDataFrames(c.buffer).frames

SseInit ==
    /\ sseText \in SeqsUpTo(SseSymbols, MaxSseLen)
    /\ sseRest = sseText
    /\ sseBuffer = <<>>
    /\ sseFrames = <<>>
    /\ ssePc = "feeding"
    /\ NormIdle
    /\ SessIdle
    /\ PageIdle
    /\ OtherIdle

\* one reader chunk: any non-empty prefix of what is left of the stream
SseFeed ==
    /\ ssePc = "feeding"
    /\ \E k \in 1..Len(sseRest) :
         LET r == consumeSseDataFrames(sseBuffer, SubSeq(sseRest, 1, k)) IN
         /\ sseBuffer' = r.buffer
         /\ sseFrames' = sseFrames \o r.frames
         /\ sseRest' = SubSeq(sseRest, k+1, Len(sseRest))
    /\ UNCHANGED <<sseText, ssePc>>
    /\ UNCHANGED nonSseVars

\* the transport closed: flush
SseFlush ==
    /\ ssePc = "feeding"
    /\ sseRest = <<>>
    /\ LET r == flushSseDataFrames(sseBuffer) IN
         /\ sseBuffer' = r.buffer
         /\ sseFrames' = sseFrames \o r.frames
    /\ ssePc' = "flushed"
    /\ UNCHANGED <<sseText, sseRest>>
    /\ UNCHANGED nonSseVars

SseNext == SseFeed \/ SseFlush

SseSpec == SseInit /\ [][SseNext]_vars

\* C3: for any stream text and any split of it into chunks, the frames
\* returned over the chunks followed by the flush equal the frames obtained
\* by feeding the whole text as a single chunk and then flushing.
C3_ChunkingInvariant ==
    ssePc = "flushed" => sseFrames = SingleChunkFrames(sseText)

RECURSIVE delimitedEvents(_)
\* the events of a text: what stands before each "\n\n", from the left
delimitedEvents(text) ==
    LET d == delimiterIndex(text) IN
    IF d = 0 THEN <<>>
    ELSE <<SubSeq(text, 1, d-1)>>
            \o delimitedEvents(SubSeq(text, d+2, Len(text)))

IsNotBlank(rawEvent) == ~IsBlank(rawEvent)

\* one frame for every event that is not empty or whitespace-only, in the
\* order of the events
framesOfEvents(events) ==
    LET kept == SelectSeq(events, IsNotBlank)
    IN [i \in 1..Len(kept) |-> JoinWith(dataLinesOf(kept[i]), LF)]

\* C31: once the whole stream text has been fed, the frames returned are
\* one frame for every delimited event of the text that is not empty or
\* whitespace-only, in the order of the events, and nothing else.
C31_OneFramePerNonBlankEvent ==
    (ssePc = "feeding" /\ sseRest = <<>>) =>
        sseFrames = framesOfEvents(delimitedEvents(normalizeChunk(sseText)))

\* the text ends with the blank-line delimiter
EndsWithDelimiter(text) ==
    LET t == normalizeChunk(text) IN
    Len(t) >= 2 /\ t[Len(t)] = LF /\ t[Len(t) - 1] = LF

\* C32: for a stream text that does not end with the delimiter, the flush
\* after the text returns the frames that a further chunk holding the
\* delimiter would return; it returns at most one frame, none when the
\* buffer has no data line, and leaves the buffer empty.
C32_FlushEqualsDelimiter ==
    [][(ssePc = "feeding" /\ ssePc' = "flushed"
            /\ ~EndsWithDelimiter(sseText)) =>
        /\ sseFrames' =
              sseFrames \o consumeSseDataFrames(sseBuffer, <<LF, LF>>).frames
        /\ Len(sseFrames') <= Len(sseFrames) + 1
        /\ dataLinesOf(sseBuffer) = <<>> => sseFrames' = sseFrames
        /\ sseBuffer' = <<>>]_vars

\* a frame of a delimited event, then the frame of an event that the stream
\* ends in without a delimiter
C32_Witness ==
    /\ ssePc = "flushed"
    /\ ~EndsWithDelimiter(sseText)
    /\ sseText # <<>>
    /\ sseText[Len(sseText)] = "x"
    /\ Len(sseFrames) = 2
    /\ sseFrames[2] = <<"x">>

-----------------------------------------------------------------------------
(* Edit proposal normalizer *)

NUL == "<NUL>"
BSL == "\\"

MAX_APPLY_EDITS == 20

MaxPathLen == 6
MaxCands == 2

\* characters paths are drawn from
PathChars == {"a", ".", "/", BSL, NUL}

\* JavaScript values of a candidate's fields, by typeof
Undefined == [t |-> "undefined", v |-> <<>>]
NumberVal == [t |-> "number", v |-> <<"5">>]
StringVal(s) == [t |-> "string", v |-> s]
BoolVal(b) == [t |-> "boolean", v |-> <<b>>]

NullEntry == [kind |-> "null", path |-> Undefined, content |-> Undefined,
              delete |-> Undefined]
NumberEntry == [kind |-> "number", path |-> Undefined, content |-> Undefined,
                delete |-> Undefined]
ObjectEntry(p, c, d) == [kind |-> "object", path |-> p, content |-> c,
                         delete |-> d]

Threw == [threw |-> TRUE, value |-> <<>>]
Returned(v) == [threw |-> FALSE, value |-> v]

\* input.replace(/\\/g, "/")
slashify(s) == [i \in 1..Len(s) |-> IF s[i] = BSL THEN "/" ELSE s[i]]

RECURSIVE trimEnd(_)
trimEnd(s) ==
    IF s # <<>> /\ IsWhitespace(s[Len(s)])
    THEN trimEnd(SubSeq(s, 1, Len(s)-1)) ELSE s

trim(s) == trimEnd(trimStart(s))

RECURSIVE normalizeSegments(_, _)
\* normalizeString of path.posix with allowAboveRoot: empty and "." segments
\* vanish, ".." removes the segment before it unless there is none or it is
\* itself "..", in which case ".." is kept.
normalizeSegments(segs, res) ==
    IF segs = <<>> THEN res
    ELSE LET seg == Head(segs) IN
         IF seg = <<>> \/ seg = <<".">>
         THEN normalizeSegments(Tail(segs), res)
         ELSE IF seg = <<".", ".">>
         THEN IF res # <<>> /\ res[Len(res)] # <<".", ".">>
              THEN normalizeSegments(Tail(segs), SubSeq(res, 1, Len(res)-1))
              ELSE normalizeSegments(Tail(segs), Append(res, seg))
         ELSE normalizeSegments(Tail(segs), Append(res, seg))

\* path.posix.normalize for a non-empty relative path
posixNormalize(p) ==
    LET trailingSeparator == p[Len(p)] = "/"
        body == JoinWith(normalizeSegments(SplitOn(p, "/"), <<>>), "/")
    IN IF body = <<>>
       THEN (IF trailingSeparator THEN <<".", "/">> ELSE <<".">>)
       ELSE IF trailingSeparator THEN Append(body, "/") ELSE body

RECURSIVE dropLeadingSlashes(_)
dropLeadingSlashes(s) ==
    IF s # <<>> /\ Head(s) = "/" THEN dropLeadingSlashes(Tail(s)) ELSE s

\* s.replace(/^\.\/+/, "")
stripDotSlash(s) ==
    IF Len(s) >= 2 /\ s[1] = "." /\ s[2] = "/"
    THEN dropLeadingSlashes(Tail(s)) ELSE s

startsWithSeq(s, pre) ==
    Len(s) >= Len(pre) /\ SubSeq(s, 1, Len(pre)) = pre

\* normalizeRelativeSandboxPath without its traversal check
normalizeRelativeSandboxPath_NoTraversalCheck(input) ==
    IF \E i \in 1..Len(input) : input[i] = NUL THEN Threw
    ELSE LET normalizedInput == trim(slashify(input)) IN
         IF normalizedInput = <<>> THEN Returned(<<>>)
         ELSE IF Head(normalizedInput) = "/" THEN Threw
         ELSE LET normalized == stripDotSlash(posixNormalize(normalizedInput)) IN
              IF normalized = <<".">> THEN Returned(<<>>)
              ELSE Returned(normalized)

normalizeRelativeSandboxPath(input) ==
    IF \E i \in 1..Len(input) : input[i] = NUL THEN Threw
    ELSE LET normalizedInput == trim(slashify(input)) IN
         IF normalizedInput = <<>> THEN Returned(<<>>)
         ELSE IF Head(normalizedInput) = "/" THEN Threw
         ELSE LET normalized == stripDotSlash(posixNormalize(normalizedInput)) IN
              IF normalized = <<".", ".">>
                    \/ startsWithSeq(normalized, <<".", ".", "/">>)
              THEN Threw
              ELSE IF normalized = <<".">> THEN Returned(<<>>)
              ELSE Returned(normalized)

\* An output edit; src is the index of the candidate it stems from (kept
\* for stating provenance, not part of the program's value).
DeleteEdit(p, i) == [path |-> p, delete |-> TRUE, content |-> <<>>, src |-> i]
ContentEdit(p, c, i) == [path |-> p, delete |-> FALSE, content |-> c, src |-> i]

\* seenPaths.has(normalizedPath) that never finds the path
seenPathsHas_Never(seenPaths, normalizedPath) == FALSE

\* seenPaths.has(normalizedPath)
seenPathsHas(seenPaths, normalizedPath) == normalizedPath \in seenPaths

\* the cap test of a loop that never stops at the cap
atCapacity_Never(normalizedEdits) == FALSE

\* normalizedEdits.length >= MAX_APPLY_EDITS
atCapacity(normalizedEdits) == Len(normalizedEdits) >= MAX_APPLY_EDITS

RECURSIVE normalizeLoop(_, _, _, _)
\* the for loop of normalizeCandidateEdits from index i on
normalizeLoop(cands, i, normalizedEdits, seenPaths) ==
    IF i > Len(cands) \/ atCapacity(normalizedEdits)
    THEN [threw |-> FALSE, edits |-> normalizedEdits]
    ELSE LET edit == cands[i] IN
         \* edit.path on null raises a TypeError
         IF edit.kind = "null" THEN [threw |-> TRUE, edits |-> <<>>]
         ELSE LET rawPath == IF edit.path.t = "string" THEN edit.path.v ELSE <<>>
                  hasStringContent == edit.content.t = "string"
                  isDelete == edit.delete = BoolVal("true")
              IN IF rawPath = <<>> \/ (~hasStringContent /\ ~isDelete)
                 THEN normalizeLoop(cands, i+1, normalizedEdits, seenPaths)
                 ELSE LET n == normalizeRelativeSandboxPath(rawPath) IN
                      IF n.threw \/ n.value = <<>> \/ seenPathsHas(seenPaths, n.value)
                      THEN normalizeLoop(cands, i+1, normalizedEdits, seenPaths)
                      ELSE normalizeLoop(cands, i+1,
                              Append(normalizedEdits,
                                  IF isDelete THEN DeleteEdit(n.value, i)
                                  ELSE ContentEdit(n.value, edit.content.v, i)),
                              seenPaths \cup {n.value})

normalizeCandidateEdits(candidateEdits) ==
    normalizeLoop(candidateEdits, 1, <<>>, {})

\* ---- inputs
PathStrings == SeqsUpTo(PathChars, MaxPathLen)

\* single candidates over every path string, with content or a delete flag
WideCandidates ==
    {ObjectEntry(StringVal(p), c, d) :
        p \in PathStrings,
        c \in {StringVal(<<"c1">>), Undefined},
        d \in {BoolVal("true"), Undefined}}

\* candidates of every shape over a few paths, for lists
ShapePaths ==
    {StringVal(<<"a">>), StringVal(<<" ", "a">>), StringVal(<<" ", "/", "a">>),
     NumberVal, Undefined}
ShapeCandidates ==
    {NullEntry, NumberEntry} \cup
    {ObjectEntry(p, c, d) :
        p \in ShapePaths,
        c \in {StringVal(<<"c1">>), StringVal(<<"c2">>), NumberVal, Undefined},
        d \in {BoolVal("true"), StringVal(<<"true">>), Undefined}}

\* the k-th of the distinct paths "a", "aa", "aaa", ...
LongPath(k) == [i \in 1..k |-> "a"]

\* the k-th candidate of a long list: a content, a delete, or both
LongCandidate(k) ==
    ObjectEntry(StringVal(LongPath(k)),
                IF k % 3 = 1 THEN Undefined ELSE StringVal(<<"c1">>),
                IF k % 3 = 2 THEN Undefined ELSE BoolVal("true"))

\* a list of len candidates with distinct valid paths, but for an invalid
\* candidate at badAt and a duplicate of the first path at dupAt (0: none)
LongList(len, badAt, dupAt) ==
    [i \in 1..len |->
        IF i = badAt THEN ObjectEntry(NumberVal, StringVal(<<"c1">>), Undefined)
        ELSE IF i = dupAt
        THEN ObjectEntry(StringVal(<<".", "/", "a">>), StringVal(<<"c2">>),
                         Undefined)
        ELSE LongCandidate(i)]

\* lists around the cap of MAX_APPLY_EDITS
LongLists ==
    {LongList(len, badAt, dupAt) :
        len \in (MAX_APPLY_EDITS - 1)..(MAX_APPLY_EDITS + MaxCands + 1),
        badAt \in {0, 1, 5, MAX_APPLY_EDITS + 1},
        dupAt \in {0, 2, MAX_APPLY_EDITS, MAX_APPLY_EDITS + 2}}

NormInputs ==
    {<<c>> : c \in WideCandidates} \cup SeqsUpTo(ShapeCandidates, MaxCands)
        \cup LongLists

NormInit ==
    /\ normInput \in NormInputs
    /\ normResult = [threw |-> FALSE, edits |-> <<>>]
    /\ normPc = "input"
    /\ SseIdle
    /\ SessIdle
    /\ PageIdle
    /\ OtherIdle

NormalizeRun ==
    /\ normPc = "input"
    /\ normResult' = normalizeCandidateEdits(normInput)
    /\ normPc' = "done"
    /\ UNCHANGED normInput
    /\ UNCHANGED nonNormVars

NormNext == NormalizeRun

NormSpec == NormInit /\ [][NormNext]_vars

\* ---- path predicates used to state the normalizer's claims
CleanRaw(p) == trim(slashify(p))

HasNul(p) == \E i \in 1..Len(p) : p[i] = NUL

IsAbsolutePath(p) == CleanRaw(p) # <<>> /\ Head(CleanRaw(p)) = "/"

HasDotDotSegmentIn(p) ==
    LET segs == SplitOn(p, "/") IN \E i \in 1..Len(segs) : segs[i] = <<".", ".">>

HasDotDotSegment(p) == HasDotDotSegmentIn(CleanRaw(p))

RECURSIVE climbsAbove(_, _)
\* walking the segments from the project root, some ".." steps above it
climbsAbove(segs, depth) ==
    IF segs = <<>> THEN FALSE
    ELSE LET seg == Head(segs) IN
         IF seg = <<>> \/ seg = <<".">> THEN climbsAbove(Tail(segs), depth)
         ELSE IF seg = <<".", ".">>
         THEN depth = 0 \/ climbsAbove(Tail(segs), depth - 1)
         ELSE climbsAbove(Tail(segs), depth + 1)

EscapesUpward(p) == climbsAbove(SplitOn(CleanRaw(p), "/"), 0)

SafeOutputPath(p) ==
    p # <<>> /\ Head(p) # "/" /\ ~HasDotDotSegmentIn(p)

\* C4 (as stated): no output edit stems from a candidate whose path contains
\* a ".." segment, is absolute or contains NUL, and every output path is
\* non-empty, relative and free of ".." segments.
C4_NoDotDotCandidateInOutput ==
    normPc = "done" /\ ~normResult.threw =>
        \A k \in 1..Len(normResult.edits) :
            LET e == normResult.edits[k]
                c == normInput[e.src]
            IN /\ c.path.t = "string"
               /\ ~HasNul(c.path.v)
               /\ ~IsAbsolutePath(c.path.v)
               /\ ~HasDotDotSegment(c.path.v)
               /\ SafeOutputPath(e.path)

\* C4 (amended): no output edit stems from a candidate whose path contains
\* NUL, is absolute, or climbs above the project root when its segments are
\* walked (its normalized form is ".." or starts with "../"); every output
\* path is non-empty, relative and free of ".." segments.
C4_NormalizerSafety ==
    normPc = "done" /\ ~normResult.threw =>
        \A k \in 1..Len(normResult.edits) :
            LET e == normResult.edits[k]
                c == normInput[e.src]
            IN /\ c.path.t = "string"
               /\ ~HasNul(c.path.v)
               /\ ~IsAbsolutePath(c.path.v)
               /\ ~EscapesUpward(c.path.v)
               /\ SafeOutputPath(e.path)

\* a candidate that the loop can turn into an edit: an object with a
\* non-empty string path that normalizes to a non-empty path, and with a
\* string content or delete === true
ValidCandidate(c) ==
    /\ c.kind = "object"
    /\ c.path.t = "string" /\ c.path.v # <<>>
    /\ (c.content.t = "string" \/ c.delete = BoolVal("true"))
    /\ ~normalizeRelativeSandboxPath(c.path.v).threw
    /\ normalizeRelativeSandboxPath(c.path.v).value # <<>>

NormalizedPathOf(c) == normalizeRelativeSandboxPath(c.path.v).value

\* C21: the paths of the output are pairwise distinct, and the edit of a
\* path stems from the first valid candidate with that normalized path:
\* it is a delete if that candidate has delete === true and carries that
\* candidate's content otherwise.
C21_DistinctPathsFirstWins ==
    (normPc = "done" /\ ~normResult.threw) =>
        LET edits == normResult.edits IN
        /\ \A k, l \in 1..Len(edits) : k # l => edits[k].path # edits[l].path
        /\ \A k \in 1..Len(edits) :
             LET e == edits[k]
                 c == normInput[e.src]
             IN /\ ValidCandidate(c)
                /\ NormalizedPathOf(c) = e.path
                /\ \A j \in 1..(e.src - 1) :
                      ValidCandidate(normInput[j])
                        => NormalizedPathOf(normInput[j]) # e.path
                /\ e.delete = (c.delete = BoolVal("true"))
                /\ ~e.delete => e.content = c.content.v
        /\ Len(edits) < MAX_APPLY_EDITS =>
             \A j \in 1..Len(normInput) :
                ValidCandidate(normInput[j]) =>
                   \E k \in 1..Len(edits) :
                        edits[k].path = NormalizedPathOf(normInput[j])

\* two valid candidates with one normalized path and different contents
\* were normalized to the one edit of the first
C21_Witness ==
    /\ normPc = "done" /\ ~normResult.threw
    /\ Len(normInput) = 2
    /\ ValidCandidate(normInput[1]) /\ ValidCandidate(normInput[2])
    /\ NormalizedPathOf(normInput[1]) = NormalizedPathOf(normInput[2])
    /\ normInput[1].path # normInput[2].path
    /\ normInput[1].content # normInput[2].content
    /\ Len(normResult.edits) = 1
    /\ normResult.edits[1].src = 1

\* C4 witness: a candidate with string content whose path climbs above the
\* project root has been processed and left out of the output.
C4_Witness ==
    /\ normPc = "done"
    /\ Len(normInput) = 1
    /\ normInput[1].path.t = "string"
    /\ normInput[1].content.t = "string"
    /\ EscapesUpward(normInput[1].path.v)
    /\ ~HasNul(normInput[1].path.v)
    /\ ~IsAbsolutePath(normInput[1].path.v)
    /\ normResult = [threw |-> FALSE, edits |-> <<>>]

\* the candidates that are valid and repeat no earlier valid candidate's
\* normalized path, by index
FirstOccurrences(cands) ==
    {i \in 1..Len(cands) :
        /\ ValidCandidate(cands[i])
        /\ \A j \in 1..(i - 1) :
              ValidCandidate(cands[j])
                => NormalizedPathOf(cands[j]) # NormalizedPathOf(cands[i])}

\* the first n of a set of indices
FirstOf(indices, n) ==
    {i \in indices : Cardinality({j \in indices : j < i}) < n}

\* C38: the output has at most 20 edits; its edits stem from candidates of
\* increasing index, namely the first 20 candidates that are valid and
\* repeat no earlier path; and every edit is a delete without content,
\* which it is whenever its candidate has delete === true, or carries the
\* string content of its candidate.
C38_FirstTwentyValidInOrder ==
    (normPc = "done" /\ ~normResult.threw) =>
        LET edits == normResult.edits IN
        /\ Len(edits) <= MAX_APPLY_EDITS
        /\ \A k, l \in 1..Len(edits) : k < l => edits[k].src < edits[l].src
        /\ {edits[k].src : k \in 1..Len(edits)} =
                FirstOf(FirstOccurrences(normInput), MAX_APPLY_EDITS)
        /\ \A k \in 1..Len(edits) :
             LET e == edits[k]
                 c == normInput[e.src]
             IN /\ e.path = NormalizedPathOf(c)
                /\ e.delete = (c.delete = BoolVal("true"))
                /\ e.delete => e.content = <<>>
                /\ ~e.delete => c.content.t = "string" /\ e.content = c.content.v

\* a list with an invalid candidate, a repeated path and more than 20
\* valid candidates gave 20 edits, one of them the delete of a candidate
\* that has a content as well, and left a valid candidate out
C38_Witness ==
    /\ normPc = "done" /\ ~normResult.threw
    /\ Len(normResult.edits) = MAX_APPLY_EDITS
    /\ Cardinality(FirstOccurrences(normInput)) > MAX_APPLY_EDITS
    /\ \E i \in 1..Len(normInput) : ~ValidCandidate(normInput[i])
    /\ \E i \in 1..Len(normInput) :
            ValidCandidate(normInput[i]) /\ i \notin FirstOccurrences(normInput)
    /\ \E k \in 1..Len(normResult.edits) :
            /\ normResult.edits[k].delete
            /\ normInput[normResult.edits[k].src].content.t = "string"

\* C5: normalizeCandidateEdits is total and fails closed: it returns a list
\* for every candidate array, and every output edit stems from an entry that
\* is an object with a string path and either string content or delete =
\* true, carrying that entry's own content or delete flag.
C5_TotalAndFailClosed ==
    normPc = "done" =>
        /\ ~normResult.threw
        /\ \A k \in 1..Len(normResult.edits) :
            LET e == normResult.edits[k]
                c == normInput[e.src]
            IN /\ c.kind = "object"
               /\ c.path.t = "string"
               /\ IF e.delete THEN c.delete = BoolVal("true")
                  ELSE c.content.t = "string" /\ e.content = c.content.v

-----------------------------------------------------------------------------
(* Generation session: data *)

Missing == "<missing>"

MaxReads == 2
MaxChunkFrames == 2

STAGE_ORDER == <<"queued", "creating_sandbox", "generating_code",
                 "installing_deps", "starting_preview", "ready">>

StageIndex(stage) == CHOOSE i \in 1..Len(STAGE_ORDER) : STAGE_ORDER[i] = stage

\* message.toLowerCase(), word by word
toLowerCase(word) ==
    IF word = "NPM INSTALL" THEN "npm install"
    ELSE IF word = "Sandbox Created" THEN "sandbox created"
    ELSE word

\* text.includes(phrase) for a text given as its sequence of phrases
includes(text, phrase) == \E i \in 1..Len(text) : toLowerCase(text[i]) = phrase

inferStageFromProgress(message, current) ==
    IF \/ includes(message, "creating new daytona sandbox")
       \/ includes(message, "using existing sandbox")
       \/ includes(message, "sandbox created")
       \/ includes(message, "connected to sandbox")
    THEN "creating_sandbox"
    ELSE IF \/ includes(message, "running vercel ai gateway generation")
            \/ includes(message, "parsing generated code")
            \/ includes(message, "writing")
            \/ includes(message, "generation output")
    THEN "generating_code"
    ELSE IF \/ includes(message, "installing project dependencies")
            \/ includes(message, "dependencies installed")
            \/ includes(message, "npm install")
    THEN "installing_deps"
    ELSE IF \/ includes(message, "starting development server")
            \/ includes(message, "waiting for server to start")
            \/ includes(message, "getting preview url")
            \/ includes(message, "preview url:")
    THEN "starting_preview"
    ELSE current

\* A decoded frame: the [DONE] sentinel, text that JSON.parse rejects, the
\* JSON literal null, or a JSON object (an event).  An absent or empty
\* message, previewUrl or sandboxId is <<>>: the code tests them for
\* truthiness only.  type Missing is an object without a string type.
DoneFrame == [k |-> "done", type |-> Missing, message |-> <<>>,
              previewUrl |-> <<>>, sandboxId |-> <<>>]
UnparsableFrame == [k |-> "unparsable", type |-> Missing, message |-> <<>>,
                    previewUrl |-> <<>>, sandboxId |-> <<>>]
JsonNullFrame == [k |-> "jsonnull", type |-> Missing, message |-> <<>>,
                  previewUrl |-> <<>>, sandboxId |-> <<>>]
EventFrame(type, message, url, sid) ==
    [k |-> "event", type |-> type, message |-> message,
     previewUrl |-> url, sandboxId |-> sid]

Frames ==
    {DoneFrame, UnparsableFrame, JsonNullFrame,
     EventFrame(Missing, <<>>, <<>>, <<>>),
     EventFrame("error", <<"boom">>, <<>>, <<>>),
     EventFrame("error", <<>>, <<>>, <<>>),
     EventFrame("complete", <<>>, <<"url1">>, <<"sb1">>),
     EventFrame("complete", <<>>, <<>>, <<>>),
     EventFrame("progress", <<"Sandbox Created">>, <<>>, <<>>),
     EventFrame("progress", <<"npm install">>, <<>>, <<>>),
     EventFrame("progress", <<>>, <<>>, <<>>),
     EventFrame("claude_message", <<>>, <<>>, <<>>)}

\* the frames that are followed by further frames in one chunk
LeadFrames ==
    {EventFrame("error", <<"boom">>, <<>>, <<>>),
     EventFrame("complete", <<>>, <<"url1">>, <<"sb1">>),
     EventFrame("progress", <<"npm install">>, <<>>, <<>>)}

\* the frames one read yields: up to MaxChunkFrames of them
Chunks ==
    UNION {{c \in [1..n -> Frames] : \A i \in 1..(n - 1) : c[i] \in LeadFrames}
           : n \in 1..MaxChunkFrames}

\* flushSseDataFrames returns no frame or one
TrailingFrameLists == {<<>>} \cup {<<f>> : f \in Frames}

Prompts == {<<" ">>, <<" ", "p">>}

ERR_UNEXPECTED == <<"Generation failed unexpectedly">>
ERR_NO_PREVIEW_URL == <<"Generation finished but preview URL was not returned">>
ERR_STREAM_ENDED == <<"Generation stream ended before preview was ready">>
ERR_GENERATE == <<"Failed to generate website">>
ERR_NO_BODY == <<"No response body">>
ERR_GENERIC == <<"An error occurred">>
ERR_NETWORK == <<"network error">>
ERR_SERVER == <<"server said no">>

-----------------------------------------------------------------------------
(* Generation session: the hook's operations *)

\* a || b on texts
OrElse(a, b) == IF a # <<>> THEN a ELSE b

\* appendMessage that puts the new entry in front of the log
appendMessage_InFront(acc, event) ==
    [acc EXCEPT
        !.counter = acc.counter + 1,
        !.state.messages =
            <<[event |-> event, id |-> acc.counter + 1]>>
                \o acc.state.messages]

\* appendMessage: the event with its id, appended to the log
appendMessage(acc, event) ==
    [acc EXCEPT
        !.counter = acc.counter + 1,
        !.state.messages =
            Append(acc.state.messages,
                   [event |-> event, id |-> acc.counter + 1])]

\* The values one pass over frames works on: the session state, the message
\* counter, the tracked controller, the run's receivedDone, and whether the
\* pass has returned from start().
Acc(st, counter, ctrl, done) ==
    [state |-> st, counter |-> counter, ctrl |-> ctrl, receivedDone |-> done,
     returned |-> FALSE]

\* the error branch without its return: the loop would go on
onErrorEvent_NoReturn(acc, frame) ==
    [appendMessage(
        [acc EXCEPT !.state.lifecycle = "failed",
                    !.state.error = OrElse(frame.message, ERR_UNEXPECTED)],
        frame)
     EXCEPT !.ctrl = 0]

\* the error branch: lifecycle failed, error recorded, message appended,
\* tracked controller cleared, return
onErrorEvent(acc, frame) ==
    [appendMessage(
        [acc EXCEPT !.state.lifecycle = "failed",
                    !.state.error = OrElse(frame.message, ERR_UNEXPECTED)],
        frame)
     EXCEPT !.ctrl = 0, !.returned = TRUE]

onCompleteEvent(acc, frame) ==
    [acc EXCEPT
        !.state.previewUrl = OrElse(frame.previewUrl, acc.state.previewUrl),
        !.state.sandboxId = OrElse(frame.sandboxId, acc.state.sandboxId),
        !.state.lifecycle = "provisioning_preview",
        !.state.stage = "starting_preview"]

\* the catch of JSON.parse ending the run instead of counting a warning
onParseWarning_Fatal(acc) ==
    [acc EXCEPT !.state.lifecycle = "failed", !.state.error = ERR_GENERIC,
                !.returned = TRUE]

\* the catch of JSON.parse: one more parse warning, on to the next frame
onParseWarning(acc) ==
    [acc EXCEPT !.state.parseWarnings = acc.state.parseWarnings + 1]

\* body of the for loop over the frames of one chunk
processFrame(acc, frame) ==
    IF frame.k = "done" THEN [acc EXCEPT !.receivedDone = TRUE]
    ELSE IF frame.k = "unparsable" THEN onParseWarning(acc)
    ELSE IF frame.k = "jsonnull" \/ frame.type = Missing THEN acc
    ELSE IF frame.type = "error" THEN onErrorEvent(acc, frame)
    ELSE IF frame.type = "complete" THEN onCompleteEvent(acc, frame)
    ELSE IF frame.type = "progress" /\ frame.message # <<>>
    THEN appendMessage(
            [acc EXCEPT
                !.state.lastProgress = frame.message,
                !.state.stage =
                    inferStageFromProgress(frame.message, acc.state.stage)],
            frame)
    ELSE appendMessage(acc, frame)

\* body of the loop over the trailing frames returned by the flush
processTrailingFrame(acc, frame) ==
    IF frame.k = "done" THEN [acc EXCEPT !.receivedDone = TRUE]
    ELSE IF frame.k = "unparsable" THEN onParseWarning(acc)
    \* null.type raises inside the try: counted as a parse warning
    ELSE IF frame.k = "jsonnull" THEN onParseWarning(acc)
    ELSE IF frame.type = "error" THEN onErrorEvent(acc, frame)
    ELSE IF frame.type = "complete" THEN onCompleteEvent(acc, frame)
    ELSE appendMessage(acc, frame)

RECURSIVE processFrames(_, _)
processFrames(acc, frames) ==
    IF frames = <<>> \/ acc.returned THEN acc
    ELSE processFrames(processFrame(acc, Head(frames)), Tail(frames))

RECURSIVE processTrailingFrames(_, _)
processTrailingFrames(acc, frames) ==
    IF frames = <<>> \/ acc.returned THEN acc
    ELSE processTrailingFrames(processTrailingFrame(acc, Head(frames)),
                               Tail(frames))

\* the setState after the trailing frames: the stream-end resolution
resolveStreamEnd(st, done) ==
    IF st.lifecycle = "failed" \/ st.lifecycle = "canceled" THEN st
    ELSE LET hasPreview == st.previewUrl # Null IN
         [st EXCEPT
            !.lifecycle = IF hasPreview THEN "ready" ELSE "failed",
            !.stage = IF hasPreview THEN "ready" ELSE st.stage,
            !.error = IF hasPreview THEN st.error
                      ELSE OrElse(st.error,
                                  IF done THEN ERR_NO_PREVIEW_URL
                                  ELSE ERR_STREAM_ENDED)]

\* the catch block of start(): canceled when this run's signal is aborted
catchError(st, signalAborted, message) ==
    IF signalAborted THEN [st EXCEPT !.lifecycle = "canceled"]
    ELSE [st EXCEPT !.lifecycle = "failed",
                    !.error = OrElse(message, ERR_GENERIC)]

\* the finally block of start()
finallyController(ctrl, r) == IF ctrl = r THEN 0 ELSE ctrl

Step(op, r, frames) == [op |-> op, run |-> r, frames |-> frames]

SessInit ==
    /\ SessIdle
    /\ SseIdle
    /\ NormIdle
    /\ PageIdle
    /\ OtherIdle

\* createSseParserState(): an empty buffer
createSseParserState == <<>>

\* a buffer that holds text after the last event delimiter
UnterminatedText == <<"<text after the last delimiter>">>

\* resetForRun that leaves the lifecycle of the initial state
resetForRun_InitialLifecycle == [INITIAL_STATE EXCEPT !.stage = "queued"]

\* the state resetForRun sets
resetForRun ==
    [INITIAL_STATE EXCEPT !.lifecycle = "requesting", !.stage = "queued"]

\* the trailingFrames the flush can return: no frame from an empty buffer,
\* none or one otherwise
trailingFrames(buffer) ==
    IF buffer = <<>> THEN {<<>>} ELSE TrailingFrameLists

\* start(prompt): nothing for a blank prompt; otherwise abort the tracked
\* run, reset the session, take the next request id and issue the fetch.
Start(prompt) ==
    /\ requestIdRef < MaxRuns
    /\ IF trim(prompt) = <<>>
       THEN /\ lastStep' = Step("start_blank", 0, <<>>)
            /\ UNCHANGED <<state, abortControllerRef, latestPromptRef,
                           messageCounterRef, requestIdRef, pc, aborted,
                           receivedDone, nReads, parserStateRef>>
       ELSE LET r == requestIdRef + 1 IN
            /\ aborted' = IF abortControllerRef # 0
                          THEN [aborted EXCEPT ![abortControllerRef] = TRUE]
                          ELSE aborted
            /\ latestPromptRef' = trim(prompt)
            /\ parserStateRef' = createSseParserState
            /\ state' = resetForRun
            /\ requestIdRef' = r
            /\ abortControllerRef' = r
            /\ pc' = [pc EXCEPT ![r] = "fetch"]
            /\ lastStep' = Step("start", r, <<>>)
            /\ UNCHANGED <<messageCounterRef, receivedDone, nReads>>
    /\ UNCHANGED nonSessVars

StartCall == \E prompt \in Prompts : Start(prompt)

\* retry(): start with the last prompt, nothing when there is none
Retry ==
    /\ latestPromptRef # <<>>
    /\ Start(latestPromptRef)

\* cancel(): nothing without a tracked controller
Cancel ==
    /\ IF abortControllerRef = 0
       THEN UNCHANGED <<state, abortControllerRef, aborted>>
       ELSE /\ aborted' = [aborted EXCEPT ![abortControllerRef] = TRUE]
            /\ abortControllerRef' = 0
            /\ state' = [state EXCEPT !.lifecycle = "canceled"]
    /\ lastStep' = Step("cancel", 0, <<>>)
    /\ UNCHANGED <<latestPromptRef, messageCounterRef, requestIdRef, pc,
                   receivedDone, nReads, parserStateRef>>
    /\ UNCHANGED nonSessVars

\* the fetch of run r resolves (also after the run was superseded or
\* aborted, when the abort came too late to reject it)
FetchResolve(r) ==
    /\ pc[r] = "fetch"
    /\ \E ok \in BOOLEAN, hasBody \in BOOLEAN :
        IF r # requestIdRef
        THEN \* superseded: return; finally
             /\ pc' = [pc EXCEPT ![r] = "done"]
             /\ abortControllerRef' = finallyController(abortControllerRef, r)
             /\ lastStep' = Step("fetch_stale", r, <<>>)
             /\ UNCHANGED state
        ELSE IF ~ok
        THEN \* await response.json() for the error payload
             /\ pc' = [pc EXCEPT ![r] = "errjson"]
             /\ lastStep' = Step("fetch_not_ok", r, <<>>)
             /\ UNCHANGED <<state, abortControllerRef>>
        ELSE IF ~hasBody
        THEN \* throw "No response body"; catch; finally
             /\ pc' = [pc EXCEPT ![r] = "done"]
             /\ state' = catchError(state, aborted[r], ERR_NO_BODY)
             /\ abortControllerRef' = finallyController(abortControllerRef, r)
             /\ lastStep' = Step("fetch_no_body", r, <<>>)
        ELSE /\ pc' = [pc EXCEPT ![r] = "read"]
             /\ state' = [state EXCEPT !.lifecycle = "streaming",
                                       !.stage = "queued"]
             /\ lastStep' = Step("fetch_ok", r, <<>>)
             /\ UNCHANGED abortControllerRef
    /\ UNCHANGED <<latestPromptRef, messageCounterRef, requestIdRef, aborted,
                   receivedDone, nReads, parserStateRef>>
    /\ UNCHANGED nonSessVars

\* the error payload of a non-ok response was read (or was no JSON): throw
ErrorPayload(r) ==
    /\ pc[r] = "errjson"
    /\ \E message \in {ERR_SERVER, ERR_GENERATE} :
        state' = catchError(state, aborted[r], message)
    /\ pc' = [pc EXCEPT ![r] = "done"]
    /\ abortControllerRef' = finallyController(abortControllerRef, r)
    /\ lastStep' = Step("error_payload", r, <<>>)
    /\ UNCHANGED <<latestPromptRef, messageCounterRef, requestIdRef, aborted,
                   receivedDone, nReads, parserStateRef>>
    /\ UNCHANGED nonSessVars

\* the pending fetch or read of run r rejects: an abort or a network error
Reject(r) ==
    /\ pc[r] \in {"fetch", "read"}
    /\ state' = catchError(state, aborted[r], ERR_NETWORK)
    /\ pc' = [pc EXCEPT ![r] = "done"]
    /\ abortControllerRef' = finallyController(abortControllerRef, r)
    /\ lastStep' = Step("reject", r, <<>>)
    /\ UNCHANGED <<latestPromptRef, messageCounterRef, requestIdRef, aborted,
                   receivedDone, nReads, parserStateRef>>
    /\ UNCHANGED nonSessVars

\* reader.read() of run r yields a chunk; its frames are processed in order
ReadChunk(r) ==
    /\ pc[r] = "read"
    /\ nReads < MaxReads
    /\ \E chunk \in Chunks :
        LET acc == processFrames(
                      Acc(state, messageCounterRef, abortControllerRef,
                          receivedDone[r]), chunk)
        IN /\ state' = acc.state
           /\ messageCounterRef' = acc.counter
           /\ receivedDone' = [receivedDone EXCEPT ![r] = acc.receivedDone]
           /\ IF acc.returned
              THEN /\ pc' = [pc EXCEPT ![r] = "done"]
                   /\ abortControllerRef' = finallyController(acc.ctrl, r)
              ELSE /\ UNCHANGED pc
                   /\ abortControllerRef' = acc.ctrl
           /\ lastStep' = Step("read", r, chunk)
    /\ nReads' = nReads + 1
    \* consumeSseDataFrames keeps the text after the last delimiter
    /\ parserStateRef' \in {<<>>, UnterminatedText}
    /\ UNCHANGED <<latestPromptRef, requestIdRef, aborted>>
    /\ UNCHANGED nonSessVars

\* reader.read() of run r reports done: flush, trailing frames, stream-end
\* resolution, finally
ReadDone(r) ==
    /\ pc[r] = "read"
    /\ \E trailing \in trailingFrames(parserStateRef) :
        LET acc == processTrailingFrames(
                      Acc(state, messageCounterRef, abortControllerRef,
                          receivedDone[r]), trailing)
        IN /\ state' = IF acc.returned THEN acc.state
                       ELSE resolveStreamEnd(acc.state, acc.receivedDone)
           /\ messageCounterRef' = acc.counter
           /\ receivedDone' = [receivedDone EXCEPT ![r] = acc.receivedDone]
           /\ abortControllerRef' = finallyController(acc.ctrl, r)
           /\ lastStep' = Step("close", r, trailing)
    /\ pc' = [pc EXCEPT ![r] = "done"]
    /\ parserStateRef' = <<>>
    /\ UNCHANGED <<latestPromptRef, requestIdRef, aborted, nReads>>
    /\ UNCHANGED nonSessVars

Next ==
    \/ StartCall
    \/ Retry
    \/ Cancel
    \/ \E r \in Runs : FetchResolve(r)
    \/ \E r \in Runs : ErrorPayload(r)
    \/ \E r \in Runs : Reject(r)
    \/ \E r \in Runs : ReadChunk(r)
    \/ \E r \in Runs : ReadDone(r)

Spec == SessInit /\ [][Next]_vars

-----------------------------------------------------------------------------
(* Generation session: properties *)

IsErrorEvent(frame) == frame.k = "event" /\ frame.type = "error"

IsProgressEvent(frame) == frame.k = "event" /\ frame.type = "progress"

\* the run that took the step is one a later start() has superseded
StepOfSupersededRun ==
    /\ lastStep'.op \in {"fetch_stale", "fetch_not_ok", "fetch_no_body",
                         "fetch_ok", "error_payload", "reject", "read",
                         "close"}
    /\ lastStep'.run < requestIdRef

\* C1: every step an earlier run takes after a newer start() leaves the
\* session state and the tracked abort controller as they were.
C1_SupersededRunWritesIgnored ==
    [][StepOfSupersededRun =>
        /\ state' = state
        /\ abortControllerRef' = abortControllerRef]_vars

\* the current run, alone in flight, processed a chunk of progress events
ProgressStepOfOnlyRun ==
    /\ lastStep'.op = "read"
    /\ lastStep'.run = requestIdRef
    /\ \A r \in Runs \ {requestIdRef} : pc[r] \in {"idle", "done"}
    /\ \A i \in 1..Len(lastStep'.frames) : IsProgressEvent(lastStep'.frames[i])

\* C2: processing progress events never moves the stage of a run backwards
\* in queued < creating_sandbox < generating_code < installing_deps <
\* starting_preview < ready.
C2_StageNeverDecreases ==
    [][ProgressStepOfOnlyRun =>
        StageIndex(state'.stage) >= StageIndex(state.stage)]_vars

\* index of the first error event among frames, 0 when there is none
FirstErrorIndex(frames) ==
    IF \E i \in 1..Len(frames) : IsErrorEvent(frames[i])
    THEN CHOOSE i \in 1..Len(frames) :
            /\ IsErrorEvent(frames[i])
            /\ \A j \in 1..(i - 1) : ~IsErrorEvent(frames[j])
    ELSE 0

\* what the frames before the error event, and nothing after it, make of
\* the state: counted parse warnings, last progress, preview and log
ErrorStepEffect ==
    LET frames == lastStep'.frames
        i == FirstErrorIndex(frames)
        r == lastStep'.run
        before == processFrames(
                     Acc(state, messageCounterRef, abortControllerRef,
                         receivedDone[r]), SubSeq(frames, 1, i - 1)).state
    IN /\ state'.lifecycle = "failed"
       /\ state'.error = IF frames[i].message # <<>> THEN frames[i].message
                         ELSE ERR_UNEXPECTED
       /\ state'.messages # <<>>
       /\ state'.messages[Len(state'.messages)].event = frames[i]
       /\ Len(state'.messages) = Len(before.messages) + 1
       /\ state'.stage = before.stage
       /\ state'.previewUrl = before.previewUrl
       /\ state'.sandboxId = before.sandboxId
       /\ state'.lastProgress = before.lastProgress
       /\ state'.parseWarnings = before.parseWarnings
       /\ pc'[r] = "done"

\* C9: the step that processes an error event leaves lifecycle failed, the
\* event's message (or the default text) as error and the error event as
\* the last message; the frames after it in the chunk change nothing, and
\* the run, once finished, takes no further step.
C9_ErrorEventIsFinal ==
    [][/\ (lastStep'.op \in {"read", "close"}
           /\ FirstErrorIndex(lastStep'.frames) # 0) => ErrorStepEffect
       /\ \A r \in Runs :
            pc[r] = "done" => (pc'[r] = "done" /\ lastStep'.run # r)]_vars

\* an error event was processed with a complete event after it in the chunk
C9_Witness ==
    /\ lastStep.op = "read"
    /\ Len(lastStep.frames) = 2
    /\ IsErrorEvent(lastStep.frames[1])
    /\ lastStep.frames[1].message = <<"boom">>
    /\ lastStep.frames[2].type = "complete"
    /\ lastStep.frames[2].previewUrl # <<>>
    /\ state.lifecycle = "failed"
    /\ state.error = <<"boom">>
    /\ state.previewUrl = Null
    /\ pc[lastStep.run] = "done"

\* a read or close step whose last frame is text that JSON.parse rejects,
\* with no error event in front of it
UnparsableFrameStep ==
    /\ lastStep'.op \in {"read", "close"}
    /\ lastStep'.frames # <<>>
    /\ lastStep'.frames[Len(lastStep'.frames)] = UnparsableFrame
    /\ FirstErrorIndex(lastStep'.frames) = 0

\* C23: a frame that JSON.parse rejects adds one to parseWarnings and
\* changes no other field: after a read the state is the one the frames in
\* front of it left, with one more warning, and the run reads on; after the
\* close the stream-end resolution works on the state with one more warning.
C23_UnparsableFrameCountsOneWarning ==
    [][UnparsableFrameStep =>
        LET frames == lastStep'.frames
            r == lastStep'.run
            before == processFrames(
                         Acc(state, messageCounterRef, abortControllerRef,
                             receivedDone[r]),
                         SubSeq(frames, 1, Len(frames) - 1))
            warned == [before.state EXCEPT !.parseWarnings = @ + 1]
        IN IF lastStep'.op = "read"
           THEN /\ state' = warned
                /\ pc'[r] = "read"
           ELSE /\ Len(frames) = 1
                /\ state' = resolveStreamEnd(warned, receivedDone[r])]_vars

\* a run that counted a parse warning has reached ready
C23_Witness ==
    /\ requestIdRef = 1
    /\ pc[1] = "done"
    /\ state.parseWarnings = 1
    /\ state.lifecycle = "ready"
    /\ state.previewUrl # Null

IsPrefixOf(s, t) == Len(s) <= Len(t) /\ SubSeq(t, 1, Len(s)) = s

\* the events of the entries a step has added to the log
AddedEvents(before, after) ==
    [i \in 1..(Len(after) - Len(before)) |-> after[Len(before) + i].event]

\* s can be had from t by leaving elements out
RECURSIVE IsSubsequenceOf(_, _)
IsSubsequenceOf(s, t) ==
    IF s = <<>> THEN TRUE
    ELSE IF t = <<>> THEN FALSE
    ELSE IF Head(s) = Head(t) THEN IsSubsequenceOf(Tail(s), Tail(t))
    ELSE IsSubsequenceOf(s, Tail(t))

\* C24: between two start() calls the message log only grows at its end: the
\* log before a step is a prefix of the log after it, the entries a step
\* adds are events of the frames it processed, in their order, and the ids
\* along the log are strictly increasing.
C24_MessageLogAppendOnly ==
    [][/\ lastStep'.op # "start" =>
            /\ IsPrefixOf(state.messages, state'.messages)
            /\ IsSubsequenceOf(AddedEvents(state.messages, state'.messages),
                               lastStep'.frames)
       /\ \A i, j \in 1..Len(state'.messages) :
            i < j => state'.messages[i].id < state'.messages[j].id]_vars

\* one run has appended to its log in two steps
C24_Witness ==
    /\ requestIdRef = 1
    /\ lastStep.op \in {"read", "close"}
    /\ lastStep.frames # <<>>
    /\ Len(state.messages) = 3
    /\ state.messages[3].event = lastStep.frames[Len(lastStep.frames)]

\* C28: a final event that arrives without its terminating blank line, and
\* so is handled by the loop over the flushed frames at the close, leaves
\* the session state that the same event leaves when it is handled by the
\* frame loop as the last frame before the close.
C28_UnterminatedFinalEventSameState ==
    [][(lastStep'.op = "close" /\ lastStep'.frames # <<>>) =>
        LET r == lastStep'.run
            acc == processFrames(
                      Acc(state, messageCounterRef, abortControllerRef,
                          receivedDone[r]),
                      lastStep'.frames)
        IN state' = IF acc.returned THEN acc.state
                    ELSE resolveStreamEnd(acc.state, acc.receivedDone)]_vars

\* C29: while lifecycle is requesting, streaming or provisioning_preview the
\* tracked abort controller is the one of the current run, and no step of a
\* superseded run changes the tracked controller.
C29_BusyRunHasTrackedController ==
    /\ [](state.lifecycle \in {"requesting", "streaming",
                               "provisioning_preview"}
            => (requestIdRef > 0 /\ abortControllerRef = requestIdRef))
    /\ [][StepOfSupersededRun => abortControllerRef' = abortControllerRef]_vars

\* C30: a start() or retry() with a prompt that is not blank aborts the
\* tracked request if there is one and leaves lifecycle requesting, stage
\* queued, an empty log, no preview URL, sandbox id, error and last progress,
\* no parse warnings and an empty decoder buffer, with the trimmed prompt as
\* the last prompt; a start() with a blank prompt changes nothing.
C30_StartResetsSession ==
    [][/\ lastStep'.op = "start" =>
            /\ state'.lifecycle = "requesting"
            /\ state'.stage = "queued"
            /\ state'.messages = <<>>
            /\ state'.previewUrl = Null
            /\ state'.sandboxId = Null
            /\ state'.error = Null
            /\ state'.lastProgress = Null
            /\ state'.parseWarnings = 0
            /\ parserStateRef' = <<>>
            /\ abortControllerRef # 0 => aborted'[abortControllerRef]
            /\ abortControllerRef' = requestIdRef'
            /\ requestIdRef' = requestIdRef + 1
            /\ latestPromptRef' # <<>>
            /\ latestPromptRef' \in
                    {trim(prompt) : prompt \in Prompts \cup {latestPromptRef}}
       /\ lastStep'.op = "start_blank" =>
            UNCHANGED <<state, abortControllerRef, latestPromptRef,
                        messageCounterRef, requestIdRef, pc, aborted,
                        receivedDone, nReads, parserStateRef>>]_vars

\* a second start() has taken over from a run that was streaming and had
\* appended to the log
C30_Witness ==
    /\ lastStep.op = "start"
    /\ requestIdRef = 2
    /\ aborted[1]
    /\ pc[1] = "read"
    /\ messageCounterRef > 0
    /\ state.lifecycle = "requesting"

\* C10: whenever lifecycle is ready, a preview URL is recorded and the stage
\* is ready.
C10_ReadyHasPreviewAndStage ==
    state.lifecycle = "ready" =>
        (state.previewUrl # Null /\ state.stage = "ready")

\* the order of the lifecycle states on the way to ready
LIFECYCLE_ORDER == <<"idle", "requesting", "streaming", "provisioning_preview",
                     "ready">>

TerminalLifecycles == {"ready", "failed", "canceled"}

LifecycleIndex(l) ==
    CHOOSE i \in 1..Len(LIFECYCLE_ORDER) : LIFECYCLE_ORDER[i] = l

\* a move forward along the order, or from a non-terminal state to failed
\* or canceled
LifecycleMoveAllowed(from, to) ==
    /\ from \notin TerminalLifecycles
    /\ \/ to \in {"failed", "canceled"}
       \/ LifecycleIndex(to) > LifecycleIndex(from)

\* C11: between two start() calls the lifecycle only moves forward along
\* idle, requesting, streaming, provisioning_preview, ready, or from a
\* non-terminal state to failed or canceled; ready, failed and canceled are
\* left by start() only.
C11_LifecycleOrder ==
    [][lastStep'.op # "start" =>
        \/ state'.lifecycle = state.lifecycle
        \/ LifecycleMoveAllowed(state.lifecycle, state'.lifecycle)]_vars

\* the newest run is in flight and nobody has aborted it
RunInFlight ==
    /\ requestIdRef # 0
    /\ pc[requestIdRef] \in {"fetch", "errjson", "read"}
    /\ ~aborted[requestIdRef]

\* C12: cancel() on a run in flight aborts it and sets lifecycle canceled,
\* leaving every other session field as it was; cancel() without a run in
\* flight changes nothing.
C12_CancelEffect ==
    [][lastStep'.op = "cancel" =>
        IF RunInFlight
        THEN /\ aborted'[requestIdRef]
             /\ state' = [state EXCEPT !.lifecycle = "canceled"]
        ELSE /\ state' = state
             /\ aborted' = aborted]_vars

\* C13: after cancel() on a run in flight no step of that run changes the
\* session any more: until the next start() the state stays the one cancel()
\* left, with lifecycle canceled.
C13_NoFrameAfterCancel ==
    [][(/\ lastStep'.run = requestIdRef
        /\ lastStep'.op \in {"fetch_ok", "fetch_not_ok", "fetch_no_body",
                             "error_payload", "reject", "read", "close"}
        /\ aborted[requestIdRef]
        /\ state.lifecycle = "canceled")
       => state' = state]_vars

-----------------------------------------------------------------------------
(* Generate page: edit preview, apply, checkpoints, restore and undo.       *)
(* The session has finished with a sandbox, the editor has no unsaved tab   *)
(* (handleSaveAll finds nothing to write), one restore runs at a time.      *)

MAX_CHECKPOINTS == 8
MaxCheckpointIds == 2

\* the content the project starts with and the content edits propose
OldContent == <<"c1">>
NewContent == <<"c2">>

isBusy == state.lifecycle \in {"requesting", "streaming", "provisioning_preview"}

\* the session after a run that produced a sandbox and a preview
ReadyState ==
    [INITIAL_STATE EXCEPT !.previewUrl = <<"url1">>, !.sandboxId = <<"sb1">>,
                          !.lifecycle = "ready", !.stage = "ready"]

PathIndex(p) == CHOOSE i \in 1..Len(PathOrder) : PathOrder[i] = p

FilesOf(ws) == {p \in Paths : ws[p] # Absent}

\* xs.slice(0, n)
Slice(xs, n) == SubSeq(xs, 1, IF Len(xs) < n THEN Len(xs) ELSE n)

\* ---- edit route

\* the request body entry of a plan edit
toCandidate(edit) ==
    ObjectEntry(StringVal(edit.path),
                IF edit.delete THEN Undefined ELSE StringVal(edit.content),
                IF edit.delete THEN BoolVal("true") ELSE Undefined)

\* what the client keeps and sends of a normalized edit
toProposedEdit(edit) ==
    [path |-> edit.path, delete |-> edit.delete, content |-> edit.content]

\* the test for a delete of a missing file that never skips the edit
skipsMissingDelete_Never(isDelete, previousContentOrNull) == FALSE

\* isDelete && previousContentOrNull === null: the edit is skipped
skipsMissingDelete(isDelete, previousContentOrNull) ==
    isDelete /\ previousContentOrNull = Absent

\* the loop that reads each edit's file, builds the previews and keeps the
\* effective edits
RECURSIVE previewLoop(_, _, _, _)
previewLoop(ws, edits, previews, effectiveEdits) ==
    IF edits = <<>>
    THEN [previews |-> previews, effectiveEdits |-> effectiveEdits]
    ELSE LET edit == Head(edits)
             previousContentOrNull == ws[edit.path]
             previousContent == IF previousContentOrNull = Absent THEN <<>>
                                ELSE previousContentOrNull
             isDelete == edit.delete
             isNewFile == previousContentOrNull = Absent /\ ~isDelete
             changed == isDelete \/ previousContent # edit.content
         IN IF skipsMissingDelete(isDelete, previousContentOrNull)
            THEN previewLoop(ws, Tail(edits), previews, effectiveEdits)
            ELSE previewLoop(ws, Tail(edits), Append(previews, edit.path),
                    IF isDelete \/ changed \/ isNewFile
                    THEN Append(effectiveEdits, toProposedEdit(edit))
                    ELSE effectiveEdits)

\* writeProjectFile / deleteProjectFile that succeeded
writeEdit(ws, edit) ==
    [ws EXCEPT ![edit.path] = IF edit.delete THEN Absent ELSE edit.content]

\* the edits the model proposes: per path nothing, a content or a delete
ModelEdits ==
    {ObjectEntry(StringVal(p), StringVal(NewContent), Undefined) : p \in Paths}
    \cup {ObjectEntry(StringVal(p), Undefined, BoolVal("true")) : p \in Paths}

ModelEditLists ==
    {<<e>> : e \in ModelEdits}
    \cup {<<e1, e2>> : e1 \in {e \in ModelEdits : e.path.v = PathOrder[1]},
                       e2 \in {e \in ModelEdits : e.path.v = PathOrder[2]}}

\* normalizeCandidateEdits of each list the requests carry
normalizedEdits == [c \in ModelEditLists |-> normalizeCandidateEdits(c)]

\* normalizeCandidateEdits and the preview loop of one request
prepareEdits(ws, candidates) ==
    LET normalized == normalizedEdits[candidates] IN
    IF normalized.threw \/ normalized.edits = <<>>
    THEN [ok |-> FALSE, previews |-> <<>>, effectiveEdits |-> <<>>]
    ELSE LET r == previewLoop(ws, normalized.edits, <<>>, <<>>) IN
         [ok |-> r.effectiveEdits # <<>>, previews |-> r.previews,
          effectiveEdits |-> r.effectiveEdits]

\* ---- checkpoint store

\* the capture without the file-listing error: the files read, minus the
\* ones whose read failed, up to the file at which the byte budget ran out
\* (cut, 0 for none)
collectProjectFilesFromSandbox(ws, unreadable, cut) ==
    [listed |-> TRUE,
     files |-> [p \in Paths |->
                  IF /\ ws[p] # Absent
                     /\ p \notin unreadable
                     /\ (cut = 0 \/ PathIndex(p) < cut)
                  THEN ws[p] ELSE Absent],
     truncated |-> cut # 0]

ListingFailed ==
    [listed |-> FALSE, files |-> EmptyWorkspace, truncated |-> FALSE]

\* the outcomes of one capture: the listing fails, every file is read, one
\* read fails, or the byte budget runs out at one file
CaptureOutcomes(ws) ==
    {ListingFailed, collectProjectFilesFromSandbox(ws, {}, 0)}
    \cup {collectProjectFilesFromSandbox(ws, {p}, 0) : p \in FilesOf(ws)}
    \cup {collectProjectFilesFromSandbox(ws, {}, PathIndex(p)) : p \in FilesOf(ws)}

\* the snapshot is usable: the listing answered and a file was captured
\* (a usable snapshot regardless of the outcome, for comparison)
snapshotUsable_Always(outcome) == TRUE

snapshotUsable(outcome) == outcome.listed /\ FilesOf(outcome.files) # {}

newCheckpoint(outcome, label, ws) ==
    [id |-> checkpointCount + 1, label |-> label, files |-> outcome.files,
     truncated |-> outcome.truncated, at |-> ws]

\* [checkpoint, ...prev].slice(0, 8)
withCheckpoint(cp, prev) == Slice(<<cp>> \o prev, MAX_CHECKPOINTS)

\* persistSandboxCheckpoints: the stored list, kept when setItem fails
persistSandboxCheckpoints(stored, list, setItemOk) ==
    IF setItemOk THEN Slice(list, MAX_CHECKPOINTS) ELSE stored

loadSandboxCheckpoints == Slice(storage, MAX_CHECKPOINTS)

findCheckpoint(list, id) ==
    IF \E i \in 1..Len(list) : list[i].id = id
    THEN list[CHOOSE i \in 1..Len(list) : list[i].id = id]
    ELSE NoCheckpoint

lastApplyCheckpoint ==
    IF lastApplyCheckpointId # 0
    THEN findCheckpoint(checkpoints, lastApplyCheckpointId)
    ELSE NoCheckpoint

\* ---- page handlers

PageInit ==
    /\ workspace = [p \in Paths |-> IF p = PathOrder[1] THEN OldContent
                                     ELSE Absent]
    /\ checkpoints = <<>>
    /\ storage = <<>>
    /\ lastApplyCheckpointId = 0
    /\ pendingEditPlan = NoPlan
    /\ selectedEditPaths = {}
    /\ isApplyingEdit = FALSE
    /\ applyPc = "idle"
    /\ applyCall = NoCall
    /\ restoringCheckpointId = 0
    /\ restoreJob = NoJob
    /\ checkpointCount = 0
    /\ pageStep = OtherStep
    /\ state = ReadyState
    /\ abortControllerRef = 0
    /\ latestPromptRef = <<"p">>
    /\ messageCounterRef = 0
    /\ requestIdRef = 1
    /\ pc = [r \in Runs |-> IF r = 1 THEN "done" ELSE "idle"]
    /\ aborted = [r \in Runs |-> FALSE]
    /\ receivedDone = [r \in Runs |-> r = 1]
    /\ nReads = 0
    /\ parserStateRef = <<>>
    /\ lastStep = Step("close", 1, <<>>)
    /\ SseIdle
    /\ NormIdle
    /\ OtherIdle

\* handleApplyEdit: the preview request and the plan built from its answer;
\* the effect on pendingEditPlan selects every preview path
PreparePreview ==
    /\ ~isBusy /\ ~isApplyingEdit
    /\ state.sandboxId # Null
    /\ \E candidates \in ModelEditLists :
        LET r == prepareEdits(workspace, candidates) IN
        IF r.ok
        THEN /\ pendingEditPlan' = [proposedEdits |-> r.effectiveEdits,
                                    previews |-> r.previews]
             /\ selectedEditPaths' = {r.previews[i] : i \in 1..Len(r.previews)}
             /\ pageStep' = OtherStep
        ELSE /\ pendingEditPlan' = NoPlan
             /\ selectedEditPaths' = {}
             /\ pageStep' = OtherStep
    /\ UNCHANGED <<workspace, checkpoints, storage, lastApplyCheckpointId,
                   isApplyingEdit, applyPc, applyCall, restoringCheckpointId,
                   restoreJob, checkpointCount>>
    /\ UNCHANGED nonPageVars

toggleEditPathSelection(path) ==
    /\ pendingEditPlan # NoPlan
    /\ selectedEditPaths' = IF path \in selectedEditPaths
                            THEN selectedEditPaths \ {path}
                            ELSE selectedEditPaths \cup {path}
    /\ pageStep' = OtherStep
    /\ UNCHANGED <<workspace, checkpoints, storage, lastApplyCheckpointId,
                   pendingEditPlan, isApplyingEdit, applyPc, applyCall,
                   restoringCheckpointId, restoreJob, checkpointCount>>
    /\ UNCHANGED nonPageVars

ToggleSelection == \E path \in Paths : toggleEditPathSelection(path)

\* the request body with every edit of the plan, selected or not
selectedProposedEdits_All == pendingEditPlan.proposedEdits

\* pendingEditPlan.proposedEdits.filter(edit => selectedPathSet.has(edit.path))
selectedProposedEdits ==
    SelectSeq(pendingEditPlan.proposedEdits,
              LAMBDA edit : edit.path \in selectedEditPaths)

\* handleApplyPreparedEdits up to its first await
ApplyStart ==
    /\ pendingEditPlan # NoPlan /\ state.sandboxId # Null
    /\ ~isBusy /\ ~isApplyingEdit
    /\ checkpointCount < MaxCheckpointIds
    /\ LET hasDelete == \E i \in 1..Len(selectedProposedEdits) :
                            selectedProposedEdits[i].delete
       IN \E confirmed \in BOOLEAN :
            IF selectedProposedEdits = <<>> \/ (hasDelete /\ ~confirmed)
            THEN /\ pageStep' = OtherStep
                 /\ UNCHANGED <<isApplyingEdit, applyPc, applyCall>>
            ELSE /\ isApplyingEdit' = TRUE
                 /\ applyPc' = "capture"
                 /\ applyCall' = [NoCall EXCEPT !.edits = selectedProposedEdits]
                 /\ pageStep' = OtherStep
    /\ UNCHANGED <<workspace, checkpoints, storage, lastApplyCheckpointId,
                   pendingEditPlan, selectedEditPaths, restoringCheckpointId,
                   restoreJob, checkpointCount>>
    /\ UNCHANGED nonPageVars

\* createCheckpointSnapshot("Before apply") returns or throws; on return the
\* backup id is recorded and the apply request is sent
ApplyCapture ==
    /\ applyPc = "capture"
    /\ \E outcome \in CaptureOutcomes(workspace), setItemOk \in BOOLEAN :
        IF snapshotUsable(outcome)
        THEN LET cp == newCheckpoint(outcome, "Before apply", workspace) IN
             /\ checkpoints' = withCheckpoint(cp, checkpoints)
             /\ storage' = persistSandboxCheckpoints(storage, checkpoints',
                                                     setItemOk)
             /\ checkpointCount' = checkpointCount + 1
             /\ lastApplyCheckpointId' = cp.id
             /\ applyCall' = [applyCall EXCEPT !.backupId = cp.id]
             /\ applyPc' = "request"
             /\ pageStep' = OtherStep
             /\ UNCHANGED isApplyingEdit
        ELSE \* throw; catch; finally
             /\ applyPc' = "idle"
             /\ isApplyingEdit' = FALSE
             /\ applyCall' = NoCall
             /\ pageStep' = PageStep("capture_failed", NoCheckpoint, FALSE)
             /\ UNCHANGED <<checkpoints, storage, checkpointCount,
                            lastApplyCheckpointId>>
    /\ UNCHANGED <<workspace, pendingEditPlan, selectedEditPaths,
                   restoringCheckpointId, restoreJob>>
    /\ UNCHANGED nonPageVars

\* the apply request reaches the route (normalization and the effective
\* filter) or is lost on the way
ServerReceive ==
    /\ applyPc = "request"
    /\ \E delivered \in BOOLEAN :
        LET r == prepareEdits(workspace,
                    [i \in 1..Len(applyCall.edits) |->
                        toCandidate(applyCall.edits[i])])
        IN IF delivered /\ r.ok
           THEN /\ applyPc' = "server"
                /\ applyCall' = [applyCall EXCEPT !.serverEdits = r.effectiveEdits]
                /\ pageStep' = OtherStep
           ELSE \* fetch rejected, or a 422 answer
                /\ applyPc' = "respond"
                /\ applyCall' = [applyCall EXCEPT !.ok = FALSE]
                /\ pageStep' = OtherStep
    /\ UNCHANGED <<workspace, checkpoints, storage, lastApplyCheckpointId,
                   pendingEditPlan, selectedEditPaths, isApplyingEdit,
                   restoringCheckpointId, restoreJob, checkpointCount>>
    /\ UNCHANGED nonPageVars

\* the apply loop takes the next effective edit; its write succeeds or fails
ServerApplyEdit ==
    /\ applyPc = "server"
    /\ applyCall.serverEdits # <<>>
    /\ LET edit == Head(applyCall.serverEdits) IN
       \E writeOk \in BOOLEAN :
        /\ workspace' = IF writeOk THEN writeEdit(workspace, edit) ELSE workspace
        /\ applyCall' =
             [applyCall EXCEPT
                !.serverEdits = Tail(applyCall.serverEdits),
                !.applied = IF writeOk THEN Append(applyCall.applied, edit.path)
                            ELSE applyCall.applied,
                !.failed = IF writeOk THEN applyCall.failed
                           ELSE Append(applyCall.failed, edit.path)]
        /\ pageStep' = OtherStep
    /\ UNCHANGED <<checkpoints, storage, lastApplyCheckpointId,
                   pendingEditPlan, selectedEditPaths, isApplyingEdit, applyPc,
                   restoringCheckpointId, restoreJob, checkpointCount>>
    /\ UNCHANGED nonPageVars

\* the route answers: 500 when nothing was applied
ServerRespond ==
    /\ applyPc = "server"
    /\ applyCall.serverEdits = <<>>
    /\ applyPc' = "respond"
    /\ applyCall' = [applyCall EXCEPT !.ok = applyCall.applied # <<>>]
    /\ pageStep' = OtherStep
    /\ UNCHANGED <<workspace, checkpoints, storage, lastApplyCheckpointId,
                   pendingEditPlan, selectedEditPaths, isApplyingEdit,
                   restoringCheckpointId, restoreJob, checkpointCount>>
    /\ UNCHANGED nonPageVars

\* handleApplyPreparedEdits after the apply call returned: the plan is
\* cleared on success; catch on failure; finally
ApplyReturn ==
    /\ applyPc = "respond"
    /\ IF applyCall.ok
       THEN /\ pendingEditPlan' = NoPlan
            /\ selectedEditPaths' = {}
       ELSE UNCHANGED <<pendingEditPlan, selectedEditPaths>>
    /\ isApplyingEdit' = FALSE
    /\ applyPc' = "idle"
    /\ pageStep' = PageStep("apply_return",
                            findCheckpoint(checkpoints, applyCall.backupId),
                            applyCall.ok)
    /\ applyCall' = NoCall
    /\ UNCHANGED <<workspace, checkpoints, storage, lastApplyCheckpointId,
                   restoringCheckpointId, restoreJob, checkpointCount>>
    /\ UNCHANGED nonPageVars

\* handleCreateCheckpoint
CreateCheckpoint ==
    /\ state.sandboxId # Null /\ ~isBusy
    /\ checkpointCount + (IF applyPc = "capture" THEN 1 ELSE 0) < MaxCheckpointIds
    /\ \E outcome \in CaptureOutcomes(workspace), setItemOk \in BOOLEAN :
        IF snapshotUsable(outcome)
        THEN LET cp == newCheckpoint(outcome, "", workspace) IN
             /\ checkpoints' = withCheckpoint(cp, checkpoints)
             /\ storage' = persistSandboxCheckpoints(storage, checkpoints',
                                                     setItemOk)
             /\ checkpointCount' = checkpointCount + 1
             /\ pageStep' = OtherStep
        ELSE /\ pageStep' = OtherStep
             /\ UNCHANGED <<checkpoints, storage, checkpointCount>>
    /\ UNCHANGED <<workspace, lastApplyCheckpointId, pendingEditPlan,
                   selectedEditPaths, isApplyingEdit, applyPc, applyCall,
                   restoringCheckpointId, restoreJob>>
    /\ UNCHANGED nonPageVars

\* setLastApplyCheckpointId that keeps the id it holds
clearedBackupId_Kept == lastApplyCheckpointId

\* setLastApplyCheckpointId(null)
clearedBackupId == 0

\* restoreCheckpoint up to the writes
beginRestore(checkpoint, undo) ==
    /\ state.sandboxId # Null /\ ~isBusy
    /\ restoringCheckpointId = 0
    /\ restoringCheckpointId' = checkpoint.id
    /\ restoreJob' = [checkpoint |-> checkpoint,
                      remaining |-> FilesOf(checkpoint.files),
                      failedPaths |-> {}, undo |-> undo]
    /\ pageStep' = OtherStep
    /\ UNCHANGED <<workspace, checkpoints, storage, lastApplyCheckpointId,
                   pendingEditPlan, selectedEditPaths, isApplyingEdit, applyPc,
                   applyCall, checkpointCount>>
    /\ UNCHANGED nonPageVars

\* handleRestoreCheckpoint, confirmed
RestoreStart ==
    \E i \in 1..Len(checkpoints) : beginRestore(checkpoints[i], FALSE)

\* handleUndoLastApply, confirmed
UndoStart ==
    /\ lastApplyCheckpoint # NoCheckpoint
    /\ ~isApplyingEdit
    /\ beginRestore(lastApplyCheckpoint, TRUE)

\* restoreProjectFilesToSandbox: one PUT is answered
RestoreWrite ==
    /\ restoringCheckpointId # 0
    /\ \E p \in restoreJob.remaining, writeOk \in BOOLEAN :
        /\ workspace' = IF writeOk
                        THEN [workspace EXCEPT ![p] = restoreJob.checkpoint.files[p]]
                        ELSE workspace
        /\ restoreJob' =
             [restoreJob EXCEPT
                !.remaining = restoreJob.remaining \ {p},
                !.failedPaths = IF writeOk THEN restoreJob.failedPaths
                                ELSE restoreJob.failedPaths \cup {p}]
        /\ pageStep' = OtherStep
    /\ UNCHANGED <<checkpoints, storage, lastApplyCheckpointId,
                   pendingEditPlan, selectedEditPaths, isApplyingEdit, applyPc,
                   applyCall, restoringCheckpointId, checkpointCount>>
    /\ UNCHANGED nonPageVars

\* restoreCheckpoint after the writes, and handleUndoLastApply after it
RestoreFinish ==
    /\ restoringCheckpointId # 0
    /\ restoreJob.remaining = {}
    /\ LET restored == restoreJob.failedPaths = {} IN
       /\ lastApplyCheckpointId' = IF restored THEN clearedBackupId
                                   ELSE lastApplyCheckpointId
       /\ IF restored /\ restoreJob.undo
          THEN /\ pendingEditPlan' = NoPlan
               /\ selectedEditPaths' = {}
          ELSE UNCHANGED <<pendingEditPlan, selectedEditPaths>>
       /\ pageStep' = PageStep(IF restoreJob.undo THEN "undo_done"
                               ELSE "restore_done",
                               restoreJob.checkpoint, restored)
    /\ restoringCheckpointId' = 0
    /\ restoreJob' = NoJob
    /\ UNCHANGED <<workspace, checkpoints, storage, isApplyingEdit, applyPc,
                   applyCall, checkpointCount>>
    /\ UNCHANGED nonPageVars

\* runPrompt with a prompt that is not blank: the session is reset for a new
\* run, so generation.sandboxId becomes null, and the effects on the sandbox
\* id and on the plan clear the plan, the selection, the backup reference
\* and the checkpoint list
RunPrompt ==
    /\ ~isBusy
    /\ requestIdRef < MaxRuns
    /\ LET r == requestIdRef + 1 IN
       /\ aborted' = IF abortControllerRef # 0
                     THEN [aborted EXCEPT ![abortControllerRef] = TRUE]
                     ELSE aborted
       /\ state' = resetForRun
       /\ parserStateRef' = createSseParserState
       /\ requestIdRef' = r
       /\ abortControllerRef' = r
       /\ pc' = [pc EXCEPT ![r] = "fetch"]
       /\ lastStep' = Step("start", r, <<>>)
    /\ pendingEditPlan' = NoPlan
    /\ selectedEditPaths' = {}
    /\ lastApplyCheckpointId' = clearedBackupId
    /\ checkpoints' = <<>>
    /\ pageStep' = PageStep("sandbox_changed", NoCheckpoint, TRUE)
    /\ UNCHANGED <<workspace, storage, isApplyingEdit, applyPc, applyCall,
                   restoringCheckpointId, restoreJob, checkpointCount>>
    /\ UNCHANGED <<latestPromptRef, messageCounterRef, receivedDone, nReads>>
    /\ UNCHANGED <<sseVars, normVars, routeVars, listVars, diffVars, poolVars,
                   storeVars, collectVars, genVars, limitVars>>

PageNext ==
    \/ RunPrompt
    \/ PreparePreview
    \/ ToggleSelection
    \/ ApplyStart
    \/ ApplyCapture
    \/ ServerReceive
    \/ ServerApplyEdit
    \/ ServerRespond
    \/ ApplyReturn
    \/ CreateCheckpoint
    \/ RestoreStart
    \/ UndoStart
    \/ RestoreWrite
    \/ RestoreFinish

PageSpec == PageInit /\ [][PageNext]_vars

-----------------------------------------------------------------------------
(* Generate page: properties *)

InList(list, cp) == \E i \in 1..Len(list) : list[i] = cp

\* the backup of the apply call in progress
applyBackup == findCheckpoint(checkpoints, applyCall.backupId)

\* the step sends the apply request
ApplyRequestSent == applyPc = "capture" /\ applyPc' = "request"

\* the step is an attempt of the apply loop to write or delete a file
ApplyEditAttempted ==
    /\ applyPc = "server" /\ applyPc' = "server"
    /\ applyCall' # applyCall

\* C6: the apply request is sent, and any edit written or deleted, only
\* after a "Before apply" snapshot with at least one file, taken from the
\* workspace as it is, has been put at the head of the checkpoint list and
\* recorded as the last apply backup; a failed capture ends the call with
\* no request and no file changed.
C6_SnapshotBeforeAnyWrite ==
    [][/\ ApplyRequestSent =>
            LET cp == Head(checkpoints') IN
            /\ cp.id = applyCall'.backupId /\ cp.id # 0
            /\ cp.label = "Before apply"
            /\ FilesOf(cp.files) # {}
            /\ \A p \in FilesOf(cp.files) : cp.files[p] = workspace[p]
            /\ lastApplyCheckpointId' = cp.id
            /\ workspace' = workspace
            /\ applyCall'.applied = <<>> /\ applyCall'.failed = <<>>
       /\ ApplyEditAttempted =>
            /\ applyCall.backupId # 0
            /\ applyBackup # NoCheckpoint =>
                    applyBackup.label = "Before apply"
       /\ (applyPc = "capture" /\ applyPc' # "capture") =>
            \/ ApplyRequestSent
            \/ /\ applyPc' = "idle" /\ ~isApplyingEdit'
               /\ workspace' = workspace
               /\ checkpoints' = checkpoints
               /\ applyCall' = NoCall
       /\ applyPc' \in {"server", "respond"} =>
            applyPc \in {"request", "server", "respond"}]_vars

\* the apply loop has written a file after the snapshot was recorded
C6_Witness ==
    /\ applyPc = "server"
    /\ applyCall.applied # <<>>
    /\ applyBackup # NoCheckpoint
    /\ applyBackup.at # workspace

\* C7: right after an apply call returns, its "Before apply" checkpoint is
\* in the checkpoint list, is returned by loadSandboxCheckpoints, and is
\* the one lastApplyCheckpointId refers to.
C7_BackupPresentAfterApply ==
    pageStep.op = "apply_return" =>
        /\ pageStep.cp # NoCheckpoint
        /\ pageStep.cp.label = "Before apply"
        /\ InList(checkpoints, pageStep.cp)
        /\ InList(loadSandboxCheckpoints, pageStep.cp)
        /\ lastApplyCheckpointId = pageStep.cp.id

\* C8: after an undo of the last apply whose restore writes all succeeded,
\* from a backup that is not truncated and holds every file of its moment,
\* the workspace is the one of the moment the backup was captured.
C8_UndoRestoresSnapshotMoment ==
    (/\ pageStep.op = "undo_done" /\ pageStep.ok
     /\ ~pageStep.cp.truncated
     /\ pageStep.cp.files = pageStep.cp.at)
        => workspace = pageStep.cp.at

-----------------------------------------------------------------------------
(* Edit route: one POST request, from the parsed body to the JSON answer *)

\* the values of body.mode: "preview", "apply", or anything else (absent)
RouteModes == {"preview", "apply", ""}

\* the arrays of candidates a caller sends as proposedEdits and the model
\* answers with as edits; <<>> also stands for an absent or non-array value
RouteEditLists == ModelEditLists \cup {<<>>}

RouteBodies == [mode : RouteModes, proposedEdits : RouteEditLists]

RouteContents == {OldContent, NewContent, Absent}

\* const mode = body.mode === "preview" ? "preview" : "apply"
routeMode(body) == IF body.mode = "preview" THEN "preview" ELSE "apply"

\* normalizeCandidateEdits on the arrays of a request
routeNormalize(candidates) ==
    IF candidates \in DOMAIN normalizedEdits
    THEN normalizedEdits[candidates]
    ELSE normalizeCandidateEdits(candidates)

\* the edits of the request come from the caller, not from the model
usesCallerEdits(body) ==
    routeMode(body) = "apply" /\ Len(body.proposedEdits) > 0

jsonError(message, status) ==
    [NoResponse EXCEPT !.status = status, !.error = message]

\* one turn of the apply loop on the edit at route.next, whose write did
\* not stop the edits behind it
applyEdit_StopAtFailure(r, writeOk) ==
    LET edit == r.effectiveEdits[r.next] IN
    IF writeOk
    THEN [r EXCEPT !.next = @ + 1, !.applied = Append(@, edit.path)]
    ELSE [r EXCEPT !.next = Len(r.effectiveEdits) + 1,
                   !.failed = Append(@, edit.path)]

\* one turn of the apply loop on the edit at route.next: try, then push the
\* path to applied, or catch and push it to failed
applyEdit(r, writeOk) ==
    LET edit == r.effectiveEdits[r.next] IN
    IF writeOk
    THEN [r EXCEPT !.next = @ + 1, !.applied = Append(@, edit.path)]
    ELSE [r EXCEPT !.next = @ + 1, !.failed = Append(@, edit.path)]

RouteInit ==
    /\ routeBody \in RouteBodies
    /\ routeModel \in RouteEditLists
    /\ routeFiles \in [Paths -> RouteContents]
    /\ routePc = "start"
    /\ route = NoRoute
    /\ routeResponse = NoResponse
    /\ SseIdle /\ NormIdle /\ SessIdle /\ PageIdle /\ ListIdle /\ DiffIdle
    /\ PoolIdle /\ StoreIdle
    /\ MoreIdle

\* the edits of the request: the caller's in apply mode with a non-empty
\* proposedEdits, the model's otherwise
RouteReceive ==
    /\ routePc = "start"
    /\ LET fromCaller == usesCallerEdits(routeBody)
           hasContext == FilesOf(routeFiles) # {}
           normalized == routeNormalize(IF fromCaller
                                        THEN routeBody.proposedEdits
                                        ELSE routeModel)
       IN IF ~fromCaller /\ ~hasContext
          THEN /\ routeResponse' =
                    jsonError("No project files available for edit context", 422)
               /\ routePc' = "done"
               /\ UNCHANGED route
          ELSE IF normalized.threw
          THEN /\ routeResponse' = jsonError("Failed to apply sandbox edit", 500)
               /\ routePc' = "done"
               /\ UNCHANGED route
          ELSE IF Len(normalized.edits) = 0
          THEN /\ routeResponse' =
                    jsonError("Model did not return any applicable file edits", 422)
               /\ routePc' = "done"
               /\ UNCHANGED route
          ELSE /\ route' = [route EXCEPT !.normalizedEdits = normalized.edits,
                                         !.fromModel = ~fromCaller]
               /\ routePc' = "preview"
               /\ UNCHANGED routeResponse
    /\ UNCHANGED <<routeBody, routeModel, routeFiles>>
    /\ UNCHANGED nonRouteVars

\* the preview loop and what follows it: 422, the preview answer, or on to
\* the apply loop
RoutePreview ==
    /\ routePc = "preview"
    /\ LET r == previewLoop(routeFiles, route.normalizedEdits, <<>>, <<>>) IN
       IF Len(r.effectiveEdits) = 0
       THEN /\ routeResponse' =
                 jsonError("No file changes detected from instruction", 422)
            /\ routePc' = "done"
            /\ UNCHANGED route
       ELSE IF routeMode(routeBody) = "preview"
       THEN /\ routeResponse' =
                 [NoResponse EXCEPT !.status = 200, !.mode = "preview",
                                    !.proposedEdits = r.effectiveEdits,
                                    !.previews = r.previews]
            /\ routePc' = "done"
            /\ UNCHANGED route
       ELSE /\ route' = [route EXCEPT !.previews = r.previews,
                                      !.effectiveEdits = r.effectiveEdits]
            /\ routePc' = "apply"
            /\ UNCHANGED routeResponse
    /\ UNCHANGED <<routeBody, routeModel, routeFiles>>
    /\ UNCHANGED nonRouteVars

\* the apply loop takes the next effective edit; its write or delete
\* succeeds or throws
RouteApplyEdit ==
    /\ routePc = "apply"
    /\ route.next <= Len(route.effectiveEdits)
    /\ \E writeOk \in BOOLEAN :
        /\ routeFiles' = IF writeOk
                         THEN writeEdit(routeFiles, route.effectiveEdits[route.next])
                         ELSE routeFiles
        /\ route' = applyEdit(route, writeOk)
    /\ UNCHANGED <<routeBody, routeModel, routePc, routeResponse>>
    /\ UNCHANGED nonRouteVars

\* after the loop: 500 when nothing was applied, else the apply answer
RouteRespond ==
    /\ routePc = "apply"
    /\ route.next > Len(route.effectiveEdits)
    /\ routeResponse' =
         IF Len(route.applied) = 0
         THEN jsonError("No edits were applied", 500)
         ELSE [NoResponse EXCEPT !.status = 200, !.mode = "apply",
                                 !.applied = route.applied,
                                 !.failed = route.failed,
                                 !.previews = route.previews]
    /\ routePc' = "done"
    /\ UNCHANGED <<routeBody, routeModel, routeFiles, route>>
    /\ UNCHANGED nonRouteVars

RouteNext == RouteReceive \/ RoutePreview \/ RouteApplyEdit \/ RouteRespond

RouteSpec == RouteInit /\ [][RouteNext]_vars

-----------------------------------------------------------------------------
(* Edit route: properties *)

PathsOfEdits(edits) == {edits[i].path : i \in 1..Len(edits)}

Elems(xs) == {xs[i] : i \in 1..Len(xs)}

\* xs holds, in the order of the edit list, paths of edits before index n
InEditOrder(xs, edits, n) ==
    \A i, j \in 1..Len(xs) :
        i < j => \E k, l \in 1..n :
                    /\ k < l
                    /\ edits[k].path = xs[i]
                    /\ edits[l].path = xs[j]

\* C14: in apply mode the loop attempts the effective edits one by one in
\* list order, whatever happened to the earlier ones: the edits before the
\* loop position are exactly the attempted ones, each with its path in
\* exactly one of applied and failed, and the answer is built only after the
\* last one.
C14_EachEffectiveEditAttemptedOnce ==
    (routePc \in {"apply", "done"} /\ Len(route.effectiveEdits) > 0) =>
        LET edits == route.effectiveEdits
            attempted == route.next - 1
        IN /\ attempted <= Len(edits)
           /\ routePc = "done" => attempted = Len(edits)
           /\ Len(route.applied) + Len(route.failed) = attempted
           /\ \A i \in 1..Len(edits) :
                 /\ i <= attempted =>
                      (edits[i].path \in Elems(route.applied))
                        # (edits[i].path \in Elems(route.failed))
                 /\ i > attempted =>
                      edits[i].path \notin
                        Elems(route.applied) \cup Elems(route.failed)
           /\ InEditOrder(route.applied, edits, attempted + 1)
           /\ InEditOrder(route.failed, edits, attempted + 1)

\* an apply request whose first write failed and whose second succeeded
C14_Witness ==
    /\ routePc = "done"
    /\ Len(route.effectiveEdits) = 2
    /\ route.failed = <<route.effectiveEdits[1].path>>
    /\ route.applied = <<route.effectiveEdits[2].path>>

\* C15: whenever writes of an apply batch failed, the answer carries the
\* paths that succeeded and the paths that failed, for one failure up to
\* all of them.
C15_OutcomeCarriesBothLists ==
    (routePc = "done" /\ Len(route.failed) > 0) =>
        /\ routeResponse.applied = route.applied
        /\ routeResponse.failed = route.failed

\* C16: an apply request changes only files named by the proposedEdits the
\* caller sent with it.
C16_OnlyCallerEditsApplied ==
    [][routeMode(routeBody) = "apply" =>
        \A p \in Paths :
            routeFiles'[p] # routeFiles[p] =>
                \E i \in 1..Len(routeBody.proposedEdits) :
                    routeBody.proposedEdits[i].path.v = p]_vars

\* C17: in a preview answer the paths with a preview are the paths of the
\* proposed edits.
C17_PreviewsMatchProposedEdits ==
    (routePc = "done" /\ routeResponse.status = 200
        /\ routeResponse.mode = "preview") =>
        Elems(routeResponse.previews) = PathsOfEdits(routeResponse.proposedEdits)

\* the edit changes the project: a delete of a file that exists, a new
\* file, or a content other than the file's
Survives(files, edit) ==
    IF edit.delete THEN files[edit.path] # Absent
    ELSE files[edit.path] = Absent \/ files[edit.path] # edit.content

\* C22: the edits kept for the apply loop are edits that survive, so no
\* delete is issued for a file that does not exist; and when no normalized
\* edit survives the route answers with a 4xx status and a reason, having
\* attempted no write or delete.
C22_MissingDeleteDroppedNoEffectIsDomainError ==
    [][/\ (routePc = "preview" /\ routePc' = "apply") =>
            \A i \in 1..Len(route'.effectiveEdits) :
                Survives(routeFiles, route'.effectiveEdits[i])
       /\ (routePc = "apply" /\ route'.next = route.next + 1) =>
            LET edit == route.effectiveEdits[route.next]
            IN edit.delete => routeFiles[edit.path] # Absent
       /\ (/\ routePc = "preview"
           /\ \A i \in 1..Len(route.normalizedEdits) :
                 ~Survives(routeFiles, route.normalizedEdits[i])) =>
            /\ routePc' = "done"
            /\ routeResponse'.status \in 400..499
            /\ routeResponse'.error # ""
            /\ routeFiles' = routeFiles
            /\ route'.applied = <<>> /\ route'.failed = <<>>]_vars

\* an apply request whose one edit deletes a file that does not exist was
\* answered with 422
C22_Witness ==
    /\ routePc = "done"
    /\ usesCallerEdits(routeBody)
    /\ Len(route.normalizedEdits) = 1
    /\ route.normalizedEdits[1].delete
    /\ routeFiles[route.normalizedEdits[1].path] = Absent
    /\ routeResponse.status = 422
    /\ route.next = 1

\* the paths of a list of edits
PathsOf(edits) == {edits[i].path : i \in 1..Len(edits)}

\* the step is the call of handleApplyPreparedEdits going on to its capture
ApplyCallBegins == applyPc = "idle" /\ applyPc' = "capture"

\* C34: the edits an apply call sends are the edits of the pending plan
\* whose paths are selected when the handler is called, in the plan's order;
\* when no edit of the plan is selected the handler sends nothing and
\* changes no file; and every path the route writes or deletes for the call
\* is the path of an edit that was selected.
C34_RequestIsTheSelectedEdits ==
    [][/\ ApplyCallBegins =>
            /\ PathsOf(applyCall'.edits) =
                    PathsOf(pendingEditPlan.proposedEdits) \cap selectedEditPaths
            /\ IsSubsequenceOf(applyCall'.edits, pendingEditPlan.proposedEdits)
            /\ Len(applyCall'.edits) = Cardinality(PathsOf(applyCall'.edits))
       /\ ApplyRequestSent => applyCall'.edits = applyCall.edits
       /\ (/\ applyPc = "idle"
           /\ PathsOf(pendingEditPlan.proposedEdits) \cap selectedEditPaths = {}) =>
            /\ applyPc' = "idle"
            /\ restoreJob' = restoreJob => workspace' = workspace
       /\ ApplyEditAttempted =>
            /\ {p \in Paths : workspace'[p] # workspace[p]}
                    \subseteq PathsOf(applyCall.edits)
            /\ {applyCall'.applied[i] : i \in 1..Len(applyCall'.applied)}
                    \cup {applyCall'.failed[i] : i \in 1..Len(applyCall'.failed)}
                    \subseteq PathsOf(applyCall.edits)
            /\ applyCall'.edits = applyCall.edits]_vars

\* an apply call that was sent one of the two edits of the plan, the other
\* path being deselected, has written that edit
C34_Witness ==
    /\ applyPc = "server"
    /\ applyCall.applied # <<>>
    /\ pendingEditPlan # NoPlan
    /\ Len(applyCall.edits) < Len(pendingEditPlan.proposedEdits)

\* the ids of the "Before apply" checkpoints of a list
BackupIds(list) ==
    {list[i].id : i \in {j \in 1..Len(list) : list[j].label = "Before apply"}}

\* the step begins an undo
UndoBegins ==
    /\ restoringCheckpointId = 0 /\ restoringCheckpointId' # 0
    /\ restoreJob'.undo

\* C33: an undo restores the backup of the most recent apply, the "Before
\* apply" checkpoint created last; a restore or undo that succeeded leaves no
\* backup reference, so that a further undo finds no backup; one that failed
\* for some file keeps the reference; a change of the sandbox id clears it.
C33_UndoIsSingleStep ==
    [][/\ UndoBegins =>
            /\ restoreJob'.checkpoint.id = lastApplyCheckpointId
            /\ restoreJob'.checkpoint.label = "Before apply"
            /\ \A id \in BackupIds(checkpoints) :
                    id <= restoreJob'.checkpoint.id
       /\ (pageStep'.op \in {"undo_done", "restore_done"} /\ pageStep'.ok) =>
            /\ lastApplyCheckpointId' = 0
            /\ lastApplyCheckpoint' = NoCheckpoint
       /\ (pageStep'.op \in {"undo_done", "restore_done"} /\ ~pageStep'.ok) =>
            lastApplyCheckpointId' = lastApplyCheckpointId
       /\ state'.sandboxId # state.sandboxId =>
            lastApplyCheckpointId' = 0]_vars

\* an undo of the second apply has succeeded and has cleared the reference
\* to its backup
C33_Witness ==
    /\ pageStep.op = "undo_done" /\ pageStep.ok
    /\ pageStep.cp.label = "Before apply"
    /\ pageStep.cp.id = MaxCheckpointIds
    /\ lastApplyCheckpointId = 0

-----------------------------------------------------------------------------
(* Checkpoint list of one sandbox id over many creations *)

MaxCreations == 10

CheckpointLabels == {"", "Before apply"}

\* the checkpoint of the n-th creation, reduced to its identity and label
listCheckpoint(n, label) == [NoCheckpoint EXCEPT !.id = n, !.label = label]

\* loadSandboxCheckpoints on a stored list of well-formed entries
loadStoredList(stored) == Slice(stored, MAX_CHECKPOINTS)

ListInit ==
    /\ listCheckpoints = <<>>
    /\ listStorage = <<>>
    /\ listCreated = 0
    /\ SseIdle /\ NormIdle /\ SessIdle /\ PageIdle /\ RouteIdle /\ DiffIdle
    /\ PoolIdle /\ StoreIdle
    /\ MoreIdle

\* createCheckpointSnapshot from the new checkpoint on: the list update and
\* the persist inside it, whose setItem may throw
ListCreate ==
    /\ listCreated < MaxCreations
    /\ \E label \in CheckpointLabels, setItemOk \in BOOLEAN :
        LET next == withCheckpoint(listCheckpoint(listCreated + 1, label),
                                   listCheckpoints)
        IN /\ listCheckpoints' = next
           /\ listStorage' = persistSandboxCheckpoints(listStorage, next, setItemOk)
    /\ listCreated' = listCreated + 1
    /\ UNCHANGED nonListVars

\* the page is loaded again with the same sandbox id: the effect on
\* generation.sandboxId sets the list to the stored one
ListReload ==
    /\ listCheckpoints' = loadStoredList(listStorage)
    /\ UNCHANGED <<listStorage, listCreated>>
    /\ UNCHANGED nonListVars

ListNext == ListCreate \/ ListReload

ListSpec == ListInit /\ [][ListNext]_vars

CheckpointIds(list) == [i \in 1..Len(list) |-> list[i].id]

\* the ids of the min(n, 8) checkpoints created last, the newest first
MostRecentIds(n) ==
    [i \in 1..(IF n < MAX_CHECKPOINTS THEN n ELSE MAX_CHECKPOINTS) |-> n - i + 1]

\* C18: after n creations the list in memory and the stored list both hold
\* the min(n, 8) checkpoints created last, the newest first, so the ninth
\* creation evicts the oldest.
C18_ListHoldsMostRecent ==
    /\ CheckpointIds(listCheckpoints) = MostRecentIds(listCreated)
    /\ CheckpointIds(listStorage) = MostRecentIds(listCreated)

-----------------------------------------------------------------------------
(* Diff engine: createUnifiedDiff on one pair of texts *)

DIFF_CONTEXT_LINES == 3

MAX_DIFF_LINES == 220

TRUNCATION_MARKER == <<"... diff truncated ...">>

\* texts are sequences of symbols; every text of up to MaxTextLen symbols
\* is an input
MaxTextLen == 4

\* the longest inputs have LongLines lines: with every line replaced their
\* hunk has 3 + 2 * LongLines lines, one more than MAX_DIFF_LINES
LongLines == 109

\* the inputs with context on both sides have MediumContext equal lines
\* before and after the place that differs
MediumContext == 4

DiffSymbols == {"x", "y", LF, CR}

DiffPath == <<"f">>

Repeat(x, n) == [i \in 1..n |-> x]

Min(a, b) == IF a < b THEN a ELSE b

Max(a, b) == IF a > b THEN a ELSE b

\* xs.slice(from, to) with 0 <= from
jsSlice(xs, from, to) == SubSeq(xs, from + 1, Min(to, Len(xs)))

\* value.replace(/\r\n/g, "\n"): every CR in front of an LF goes; computed
\* half by half, a CR LF across the middle losing its CR
RECURSIVE normalizeLineEndings(_)
normalizeLineEndings(value) ==
    IF Len(value) <= 1 THEN value
    ELSE LET half == Len(value) \div 2
             left == IF value[half] = CR /\ value[half + 1] = LF
                     THEN SubSeq(value, 1, half - 1)
                     ELSE SubSeq(value, 1, half)
         IN normalizeLineEndings(left)
            \o normalizeLineEndings(SubSeq(value, half + 1, Len(value)))

\* value.split("\n"): as SplitOn, computed by cutting at the LF nearest to
\* the middle
RECURSIVE splitLines(_)
splitLines(value) ==
    LET at == {i \in 1..Len(value) : value[i] = LF}
        half == (Len(value) + 1) \div 2
        dist(i) == IF i < half THEN half - i ELSE i - half
    IN IF at = {} THEN <<value>>
       ELSE LET i == CHOOSE j \in at : \A k \in at : dist(j) <= dist(k)
            IN splitLines(SubSeq(value, 1, i - 1))
               \o splitLines(SubSeq(value, i + 1, Len(value)))

\* lines.join("\n"): as JoinWith, computed half by half
RECURSIVE joinLines(_)
joinLines(lines) ==
    IF Len(lines) = 0 THEN <<>>
    ELSE IF Len(lines) = 1 THEN lines[1]
    ELSE LET half == Len(lines) \div 2
         IN joinLines(SubSeq(lines, 1, half)) \o <<LF>>
            \o joinLines(SubSeq(lines, half + 1, Len(lines)))

\* normalizeLineEndings(content).split("\n")
linesOf(content) == splitLines(normalizeLineEndings(content))

\* trimDiffLines that keeps a line too many at the end
trimDiffLines_LongTail(lines) ==
    IF Len(lines) <= MAX_DIFF_LINES THEN lines
    ELSE LET keepStart == (MAX_DIFF_LINES * 6) \div 10
             keepEnd == MAX_DIFF_LINES - keepStart
         IN jsSlice(lines, 0, keepStart)
            \o <<TRUNCATION_MARKER>>
            \o jsSlice(lines, Max(Len(lines) - keepEnd, keepStart), Len(lines))

trimDiffLines(lines) ==
    IF Len(lines) <= MAX_DIFF_LINES THEN lines
    ELSE LET keepStart == (MAX_DIFF_LINES * 6) \div 10
             keepEnd == MAX_DIFF_LINES - keepStart - 1
         IN jsSlice(lines, 0, keepStart)
            \o <<TRUNCATION_MARKER>>
            \o jsSlice(lines, Max(Len(lines) - keepEnd, keepStart), Len(lines))

\* the first loop: the number of leading lines the two lists share
RECURSIVE commonStart(_, _, _)
commonStart(beforeLines, afterLines, start) ==
    IF /\ start < Len(beforeLines)
       /\ start < Len(afterLines)
       /\ beforeLines[start + 1] = afterLines[start + 1]
    THEN commonStart(beforeLines, afterLines, start + 1)
    ELSE start

\* the second loop without its bound at start
RECURSIVE commonEnd_Overlapping(_, _, _, _, _)
commonEnd_Overlapping(beforeLines, afterLines, start, beforeEnd, afterEnd) ==
    IF /\ beforeEnd >= 0
       /\ afterEnd >= 0
       /\ beforeLines[beforeEnd + 1] = afterLines[afterEnd + 1]
    THEN commonEnd_Overlapping(beforeLines, afterLines, start, beforeEnd - 1,
                               afterEnd - 1)
    ELSE [beforeEnd |-> beforeEnd, afterEnd |-> afterEnd]

\* the second loop: the last differing index of each list, never moving
\* into the shared start
RECURSIVE commonEnd(_, _, _, _, _)
commonEnd(beforeLines, afterLines, start, beforeEnd, afterEnd) ==
    IF /\ beforeEnd >= start
       /\ afterEnd >= start
       /\ beforeLines[beforeEnd + 1] = afterLines[afterEnd + 1]
    THEN commonEnd(beforeLines, afterLines, start, beforeEnd - 1, afterEnd - 1)
    ELSE [beforeEnd |-> beforeEnd, afterEnd |-> afterEnd]

prefixed(lines, prefix) == [i \in 1..Len(lines) |-> <<prefix>> \o lines[i]]

hunkHeader(oldStart, oldCount, newStart, newCount) ==
    <<"@@ -", ToString(oldStart), ",", ToString(oldCount),
      " +", ToString(newStart), ",", ToString(newCount), " @@">>

\* the first loop that finds no shared leading line
unifiedDiffStart_None(beforeLines, afterLines) == 0

\* start after the first loop of createUnifiedDiff
unifiedDiffStart(beforeLines, afterLines) ==
    commonStart(beforeLines, afterLines, 0)

\* diffLines, removed and added of createUnifiedDiff behind its test for
\* identical contents
unifiedDiffLines(filePath, previousContent, nextContent) ==
    LET beforeLines == linesOf(previousContent)
        afterLines == linesOf(nextContent)
        start == unifiedDiffStart(beforeLines, afterLines)
        ends == commonEnd(beforeLines, afterLines, start,
                          Len(beforeLines) - 1, Len(afterLines) - 1)
        beforeEnd == ends.beforeEnd
        afterEnd == ends.afterEnd
        removed == IF beforeEnd >= start
                   THEN jsSlice(beforeLines, start, beforeEnd + 1) ELSE <<>>
        added == IF afterEnd >= start
                 THEN jsSlice(afterLines, start, afterEnd + 1) ELSE <<>>
        preStart == Max(0, start - DIFF_CONTEXT_LINES)
        preContext == jsSlice(beforeLines, preStart, start)
        postStart == Max(beforeEnd + 1, start)
        postContext == jsSlice(beforeLines, postStart,
                               postStart + DIFF_CONTEXT_LINES)
        hunkOldStart == preStart + 1
        hunkNewStart == preStart + 1
        hunkOldCount == Len(preContext) + Len(removed) + Len(postContext)
        hunkNewCount == Len(preContext) + Len(added) + Len(postContext)
        diffLines ==
            << <<"--- a/">> \o filePath,
               <<"+++ b/">> \o filePath,
               hunkHeader(hunkOldStart, hunkOldCount, hunkNewStart, hunkNewCount) >>
            \o prefixed(preContext, " ")
            \o prefixed(removed, "-")
            \o prefixed(added, "+")
            \o prefixed(postContext, " ")
    IN [diffLines |-> diffLines, removed |-> removed, added |-> added]

\* createUnifiedDiff behind its test for identical contents
diffOfChange(filePath, previousContent, nextContent) ==
    LET r == unifiedDiffLines(filePath, previousContent, nextContent)
    IN [changed |-> TRUE,
        additions |-> Len(r.added),
        deletions |-> Len(r.removed),
        diff |-> joinLines(trimDiffLines(r.diffLines))]

\* createUnifiedDiff without its test for identical contents
createUnifiedDiff_NoIdentityTest(filePath, previousContent, nextContent) ==
    diffOfChange(filePath, previousContent, nextContent)

createUnifiedDiff(filePath, previousContent, nextContent) ==
    IF previousContent = nextContent
    THEN [changed |-> FALSE,
          additions |-> 0,
          deletions |-> 0,
          diff |-> joinLines(<< <<"--- a/">> \o filePath,
                               <<"+++ b/">> \o filePath,
                               <<"(No changes)">> >>)]
    ELSE diffOfChange(filePath, previousContent, nextContent)

\* diffLines of createDeletedFileDiff
deletedFileDiffLines(filePath, previousContent) ==
    LET beforeLines == linesOf(previousContent)
    IN << <<"--- a/">> \o filePath,
          <<"+++ /dev/null">>,
          <<"@@ -1,", ToString(Len(beforeLines)), " +0,0 @@">> >>
       \o prefixed(beforeLines, "-")

createDeletedFileDiff(filePath, previousContent) ==
    [changed |-> TRUE,
     additions |-> 0,
     deletions |-> Len(linesOf(previousContent)),
     diff |-> joinLines(trimDiffLines(deletedFileDiffLines(filePath,
                                                           previousContent)))]

\* ---- the texts the diff is computed on

ShortTexts == SeqsUpTo(DiffSymbols, MaxTextLen)

\* MediumContext lines x, a few lines that differ, MediumContext lines x
MediumTexts ==
    {joinLines(Repeat(<<"x">>, MediumContext) \o middle
                \o Repeat(<<"x">>, MediumContext)) :
        middle \in {<<>>, << <<"x">> >>, << <<"y">> >>, << <<>> >>,
                    << <<"y">>, <<"x">>, <<"y">> >>}}

LongText(c, n) == joinLines(Repeat(<<c>>, n))

\* pairs of long texts that share no line, and a long text with itself
LongPairs ==
    {<<LongText(c, n), LongText(d, m)>> :
        c \in {"x"}, d \in {"x", "y"},
        n \in {LongLines - 1, LongLines}, m \in {LongLines - 1, LongLines}}
    \ {<<LongText("x", LongLines - 1), LongText("x", LongLines)>>,
       <<LongText("x", LongLines), LongText("x", LongLines - 1)>>}

\* a text of n lines that are all different: "1", "2", ...
NumberedText(n) == joinLines([i \in 1..n |-> <<ToString(i)>>])

\* a file of different lines, about as long as the line cap, that is
\* emptied or deleted, or gets different lines
NumberedPairs ==
    {<<NumberedText(n), <<>> >> : n \in (2 * LongLines - 2)..(2 * LongLines)}
    \cup {<<NumberedText(LongLines + 2), NumberedText(LongLines + 1) \o <<LF, "y">> >>,
           <<NumberedText(LongLines + 1) \o <<LF, "y">>, NumberedText(LongLines + 2)>>,
           <<<<"x", LF>> \o NumberedText(LongLines), <<"x", LF>> \o LongText("y", LongLines)>>}

DiffPairs ==
    ((ShortTexts \cup MediumTexts) \X (ShortTexts \cup MediumTexts))
    \cup LongPairs \cup NumberedPairs

DiffInit ==
    /\ \E pair \in DiffPairs : diffBefore = pair[1] /\ diffAfter = pair[2]
    /\ diffResult = NoDiff
    /\ diffPc = "input"
    /\ SseIdle /\ NormIdle /\ SessIdle /\ PageIdle /\ RouteIdle /\ ListIdle
    /\ PoolIdle /\ StoreIdle
    /\ MoreIdle

DiffRun ==
    /\ diffPc = "input"
    /\ diffResult' = createUnifiedDiff(DiffPath, diffBefore, diffAfter)
    /\ diffPc' = "done"
    /\ UNCHANGED <<diffBefore, diffAfter>>
    /\ UNCHANGED nonDiffVars

\* the preview of a delete edit: createDeletedFileDiff on the file's content
DiffRunDeleted ==
    /\ diffPc = "input"
    /\ diffAfter = <<>>
    /\ diffResult' = createDeletedFileDiff(DiffPath, diffBefore)
    /\ diffPc' = "deleted"
    /\ UNCHANGED <<diffBefore, diffAfter>>
    /\ UNCHANGED nonDiffVars

DiffNext == DiffRun \/ DiffRunDeleted

DiffSpec == DiffInit /\ [][DiffNext]_vars

-----------------------------------------------------------------------------
(* Diff engine: properties *)

\* the lines of a rendered diff behind the two file lines and the hunk header
hunkBody(diff) ==
    LET lines == splitLines(diff) IN SubSeq(lines, 4, Len(lines))

\* the old start line the hunk header states
hunkOldStartOf(diff) ==
    LET header == splitLines(diff)[3]
    IN CHOOSE n \in 0..(2 * LongLines + 2) : ToString(n) = header[2]

linesWithPrefix(body, prefix) ==
    LET picked == {i \in 1..Len(body) : body[i] # <<>> /\ body[i][1] = prefix}
        nth(k) == CHOOSE i \in picked : Cardinality({j \in picked : j < i}) = k - 1
    IN [k \in 1..Cardinality(picked) |-> Tail(body[nth(k)])]

\* the context lines in front of the first removed or added line
RECURSIVE leadingContext(_)
leadingContext(body) ==
    IF body # <<>> /\ body[1] # <<>> /\ body[1][1] = " "
    THEN 1 + leadingContext(Tail(body))
    ELSE 0

\* before's lines with the removed lines of the rendered hunk replaced by
\* its added lines, at the header's start line plus the leading context
patched(beforeLines, diff) ==
    LET body == hunkBody(diff)
        removed == linesWithPrefix(body, "-")
        added == linesWithPrefix(body, "+")
        at == hunkOldStartOf(diff) - 1 + leadingContext(body)
    IN jsSlice(beforeLines, 0, at) \o added
       \o jsSlice(beforeLines, at + Len(removed), Len(beforeLines))

isTruncated(diff) ==
    LET lines == splitLines(diff)
    IN \E i \in 1..Len(lines) : lines[i] = TRUNCATION_MARKER

\* p: the number of leading lines two lists of lines share
CommonPrefixLen(b, a) ==
    CHOOSE k \in 0..Min(Len(b), Len(a)) :
        /\ \A i \in 1..k : b[i] = a[i]
        /\ k = Min(Len(b), Len(a)) \/ b[k + 1] # a[k + 1]

\* s: the number of trailing lines they share behind the first p lines
CommonSuffixLen(b, a, p) ==
    CHOOSE k \in 0..(Min(Len(b), Len(a)) - p) :
        /\ \A i \in 1..k : b[Len(b) - i + 1] = a[Len(a) - i + 1]
        /\ k = Min(Len(b), Len(a)) - p \/ b[Len(b) - k] # a[Len(a) - k]

\* C36: for two texts that are not identical, deletions is the number of
\* before's lines less p and s, additions the number of after's lines less
\* p and s, with p the length of the longest common line prefix and s that
\* of the longest common line suffix of what remains behind the prefix;
\* the removed lines are before's lines p+1 .. |before| - s and the added
\* lines are after's lines p+1 .. |after| - s, as the rendered hunk shows
\* them when it is not truncated.
C36_CountsFromCommonPrefixAndSuffix ==
    (diffPc = "done" /\ diffBefore # diffAfter) =>
        LET b == linesOf(diffBefore)
            a == linesOf(diffAfter)
            p == CommonPrefixLen(b, a)
            s == CommonSuffixLen(b, a, p)
            body == hunkBody(diffResult.diff)
        IN /\ p + s <= Min(Len(b), Len(a))
           /\ diffResult.deletions = Len(b) - p - s
           /\ diffResult.additions = Len(a) - p - s
           /\ ~isTruncated(diffResult.diff) =>
                /\ linesWithPrefix(body, "-") = SubSeq(b, p + 1, Len(b) - s)
                /\ linesWithPrefix(body, "+") = SubSeq(a, p + 1, Len(a) - s)
                /\ hunkOldStartOf(diffResult.diff) - 1 + leadingContext(body) = p

\* a change with shared lines in front of and behind the lines replaced
C36_Witness ==
    /\ diffPc = "done" /\ diffBefore # diffAfter
    /\ diffResult.deletions = 3 /\ diffResult.additions = 1
    /\ CommonPrefixLen(linesOf(diffBefore), linesOf(diffAfter)) = MediumContext
    /\ CommonSuffixLen(linesOf(diffBefore), linesOf(diffAfter), MediumContext)
            = MediumContext

\* the lines of the rendering before trimDiffLines
UntrimmedLines ==
    IF diffPc = "deleted" THEN deletedFileDiffLines(DiffPath, diffBefore)
    ELSE unifiedDiffLines(DiffPath, diffBefore, diffAfter).diffLines

CountWithPrefix(lines, prefix) ==
    Cardinality({i \in 4..Len(lines) : lines[i][1] = prefix})

\* C37: the diff text of createUnifiedDiff on texts that differ and of
\* createDeletedFileDiff has at most 220 lines; when the rendering before
\* trimming has more, the text has exactly 220 lines: the first 132 lines
\* of the rendering, the truncation marker, and its last 87 lines; and
\* additions and deletions count the "+" and "-" lines of the rendering
\* before trimming.
C37_DiffTextWithinLineCap ==
    ((diffPc = "done" /\ diffBefore # diffAfter) \/ diffPc = "deleted") =>
        LET u == UntrimmedLines
            r == splitLines(diffResult.diff)
        IN /\ Len(r) <= MAX_DIFF_LINES
           /\ Len(u) <= MAX_DIFF_LINES => r = u
           /\ Len(u) > MAX_DIFF_LINES =>
                /\ Len(r) = MAX_DIFF_LINES
                /\ SubSeq(r, 1, 132) = SubSeq(u, 1, 132)
                /\ r[133] = TRUNCATION_MARKER
                /\ SubSeq(r, 134, 220) = SubSeq(u, Len(u) - 86, Len(u))
           /\ diffResult.additions = CountWithPrefix(u, "+")
           /\ diffResult.deletions = CountWithPrefix(u, "-")

\* the diff of a deleted file of 218 different lines: 221 lines cut to 220
C37_Witness ==
    /\ diffPc = "deleted"
    /\ diffResult.deletions = 2 * LongLines
    /\ isTruncated(diffResult.diff)
    /\ Len(splitLines(diffResult.diff)) = MAX_DIFF_LINES

\* C19 as stated: for every pair of texts that differ, also one whose hunk
\* is longer than the line cap, patching before's lines with the rendered
\* hunk gives after's lines.
C19_PatchReproducesAfter ==
    (diffPc = "done" /\ diffBefore # diffAfter) =>
        patched(linesOf(diffBefore), diffResult.diff) = linesOf(diffAfter)

\* C19 amended: for every pair of texts that differ and whose rendered hunk
\* is within the line cap, patching before's lines with the rendered hunk
\* gives after's lines.
C19_PatchReproducesAfterWithinCap ==
    (diffPc = "done" /\ diffBefore # diffAfter
        /\ ~isTruncated(diffResult.diff)) =>
        patched(linesOf(diffBefore), diffResult.diff) = linesOf(diffAfter)

\* a pair with context before and after the replaced lines, not truncated
C19_Witness ==
    /\ diffPc = "done"
    /\ diffBefore # diffAfter
    /\ diffBefore \in MediumTexts /\ diffAfter \in MediumTexts
    /\ diffResult.additions > 0 /\ diffResult.deletions > 0
    /\ ~isTruncated(diffResult.diff)
    /\ hunkOldStartOf(diffResult.diff) > 1

\* C20: the diff of a text with itself, the empty text included, has
\* changed false and no additions or deletions.
C20_IdenticalTextsUnchanged ==
    (diffPc = "done" /\ diffBefore = diffAfter) =>
        /\ diffResult.changed = FALSE
        /\ diffResult.additions = 0
        /\ diffResult.deletions = 0

\* the diff of the empty text with itself has been computed
C20_Witness ==
    /\ diffPc = "done"
    /\ diffBefore = <<>> /\ diffAfter = <<>>
    /\ diffResult.changed = FALSE

-----------------------------------------------------------------------------
(* restoreProjectFilesToSandbox: the worker pool of withConcurrency *)
(* A snapshot file is known by its index in the files argument. Each PUT   *)
(* is answered with a response that is ok, with one that is not, or the    *)
(* fetch rejects.                                                          *)

MaxPoolFiles == 5

\* the values of options.concurrency, 0 for an option that is not given
Concurrencies == 0..DEFAULT_CONCURRENCY

WriteOutcomes == {"ok", "not_ok", "threw"}

\* Math.max(1, items.length): a worker for every item
safeLimit_EveryItem(limit, length) == Max(1, length)

\* Math.max(1, Math.min(limit, items.length))
safeLimit(limit, length) == Max(1, Min(limit, length))

PoolWorkerIds == 1..DEFAULT_CONCURRENCY

\* fetchImpl(PUT) for the item at the 0-based index
issueWrite(writes, files, index) ==
    Append(writes, [path |-> files[index + 1], outcome |-> "pending"])

\* the write of a path that is still unanswered
pendingWrite(writes, path) ==
    CHOOSE i \in 1..Len(writes) :
        writes[i].path = path /\ writes[i].outcome = "pending"

RECURSIVE issueFirstWrites(_, _, _)
issueFirstWrites(writes, files, count) ==
    IF count = 0 THEN writes
    ELSE issueWrite(issueFirstWrites(writes, files, count - 1), files, count - 1)

PoolInit ==
    /\ \E n \in 0..MaxPoolFiles : poolFiles = [i \in 1..n |-> i]
    /\ \E concurrency \in Concurrencies :
        poolLimit = IF concurrency = 0 THEN DEFAULT_CONCURRENCY
                    ELSE concurrency
    /\ poolIndex = 0
    /\ poolWorkers = [w \in PoolWorkerIds |-> NoWorker]
    /\ poolWrites = <<>> /\ poolFailedPaths = <<>>
    /\ poolResult = [NoResult EXCEPT !.status = "called"]
    /\ SseIdle /\ NormIdle /\ SessIdle /\ PageIdle
    /\ RouteIdle /\ ListIdle /\ DiffIdle /\ StoreIdle
    /\ MoreIdle

\* the call up to its first suspension: nothing for no files, otherwise
\* safeLimit calls of runWorker, each taking an item and issuing its write
PoolCall ==
    /\ poolResult.status = "called"
    /\ IF Len(poolFiles) = 0
       THEN /\ poolResult' = [status |-> "returned", failedPaths |-> <<>>,
                              restoredCount |-> 0]
            /\ UNCHANGED <<poolIndex, poolWorkers, poolWrites>>
       ELSE LET limit == safeLimit(poolLimit, Len(poolFiles)) IN
            /\ poolWorkers' = [w \in PoolWorkerIds |->
                                 IF w <= limit
                                 THEN [pc |-> "await", item |-> w]
                                 ELSE NoWorker]
            /\ poolIndex' = limit
            /\ poolWrites' = issueFirstWrites(poolWrites, poolFiles, limit)
            /\ poolResult' = [poolResult EXCEPT !.status = "running"]
    /\ UNCHANGED <<poolFiles, poolLimit, poolFailedPaths>>
    /\ UNCHANGED nonPoolVars

\* the write a worker awaits is answered: a response that is not ok puts the
\* path on failedPaths, a rejected fetch ends the worker and rejects the call
PoolResponse(w) ==
    /\ poolWorkers[w].pc = "await"
    /\ \E outcome \in WriteOutcomes :
        LET path == poolFiles[poolWorkers[w].item]
            i == pendingWrite(poolWrites, path)
        IN /\ poolWrites' = [poolWrites EXCEPT ![i].outcome = outcome]
           /\ poolFailedPaths' = IF outcome = "not_ok"
                                 THEN Append(poolFailedPaths, path)
                                 ELSE poolFailedPaths
           /\ poolWorkers' = [poolWorkers EXCEPT
                                ![w].pc = IF outcome = "threw" THEN "threw"
                                          ELSE "loop"]
           /\ poolResult' = IF outcome = "threw" /\ poolResult.status = "running"
                            THEN [poolResult EXCEPT !.status = "rejected"]
                            ELSE poolResult
    /\ UNCHANGED <<poolFiles, poolLimit, poolIndex>>
    /\ UNCHANGED nonPoolVars

\* runWorker at the head of its loop: the next item and its write, or the
\* end of the worker; the call returns when its last worker has ended
PoolRunWorker(w) ==
    /\ poolWorkers[w].pc = "loop"
    /\ IF poolIndex < Len(poolFiles)
       THEN /\ poolWorkers' = [poolWorkers EXCEPT
                                 ![w] = [pc |-> "await", item |-> poolIndex + 1]]
            /\ poolIndex' = poolIndex + 1
            /\ poolWrites' = issueWrite(poolWrites, poolFiles, poolIndex)
            /\ UNCHANGED poolResult
       ELSE /\ poolWorkers' = [poolWorkers EXCEPT ![w].pc = "done"]
            /\ poolResult' =
                 IF /\ poolResult.status = "running"
                    /\ \A v \in PoolWorkerIds \ {w} :
                          poolWorkers[v].pc \in {"unused", "done"}
                 THEN [status |-> "returned",
                       failedPaths |-> poolFailedPaths,
                       restoredCount |-> Len(poolFiles) - Len(poolFailedPaths)]
                 ELSE poolResult
            /\ UNCHANGED <<poolIndex, poolWrites>>
    /\ UNCHANGED <<poolFiles, poolLimit, poolFailedPaths>>
    /\ UNCHANGED nonPoolVars

PoolNext ==
    \/ PoolCall
    \/ \E w \in PoolWorkerIds : PoolResponse(w)
    \/ \E w \in PoolWorkerIds : PoolRunWorker(w)

PoolSpec == PoolInit /\ [][PoolNext]_vars

-----------------------------------------------------------------------------
(* Worker pool: properties *)

\* the writes that have been issued and not answered
InFlight == {i \in 1..Len(poolWrites) : poolWrites[i].outcome = "pending"}

\* C26: at every moment of a restore at most `concurrency` writes are in
\* flight, whatever the number of files and the order of the answers.
C26_InFlightWithinConcurrency == Cardinality(InFlight) <= poolLimit

\* more files than the default concurrency: the write of the fifth file
\* was issued after an answer and the default number is in flight again
C26_Witness ==
    /\ poolLimit = DEFAULT_CONCURRENCY
    /\ Len(poolFiles) > DEFAULT_CONCURRENCY
    /\ Len(poolWrites) > DEFAULT_CONCURRENCY
    /\ Cardinality(InFlight) = DEFAULT_CONCURRENCY

WritesOf(path) == {i \in 1..Len(poolWrites) : poolWrites[i].path = path}

PoolEnded ==
    /\ poolResult.status # "called"
    /\ \A w \in PoolWorkerIds : poolWorkers[w].pc \in {"unused", "done", "threw"}

\* C27: no file is written twice; when the workers have ended every file
\* has been written once; and a call that has returned reports restoredCount
\* + |failedPaths| = |files| with failedPaths the files whose write failed.
C27_OneWritePerFileAndCountsAddUp ==
    /\ \A i \in 1..Len(poolFiles) : Cardinality(WritesOf(poolFiles[i])) <= 1
    /\ PoolEnded =>
        \A i \in 1..Len(poolFiles) : Cardinality(WritesOf(poolFiles[i])) = 1
    /\ poolResult.status = "returned" =>
        /\ poolResult.restoredCount + Len(poolResult.failedPaths)
                = Len(poolFiles)
        /\ {poolResult.failedPaths[i] : i \in 1..Len(poolResult.failedPaths)}
                = {poolWrites[i].path :
                     i \in {j \in 1..Len(poolWrites) :
                               poolWrites[j].outcome # "ok"}}

-----------------------------------------------------------------------------
(* Checkpoint store: persistSandboxCheckpoints and loadSandboxCheckpoints  *)
(* on localStorage. An element of a list is a checkpoint, an object that   *)
(* is no checkpoint, or undefined; a stored item is no item (null), text   *)
(* that is no JSON, JSON that is no array, or the JSON text of an array.   *)

\* the longest list handed to persist: one more than MAX_CHECKPOINTS
MaxStoreLen == 9

StoreCheckpoint(n) == [k |-> "checkpoint", id |-> n]
MalformedEntry == [k |-> "object", id |-> 0]
UndefinedEntry == [k |-> "undefined", id |-> 0]
JsonNullEntry == [k |-> "null", id |-> 0]

NoItem == [k |-> "null", items |-> <<>>]
NoJsonItem == [k |-> "text", items |-> <<>>]
NoArrayItem == [k |-> "object", items |-> <<>>]
ArrayItem(items) == [k |-> "array", items |-> items]

\* isSandboxCheckpoint: an object with every field of its type
isSandboxCheckpoint(value) == value.k = "checkpoint"

\* JSON.stringify of an array: undefined elements are written as null
jsonStringify(list) ==
    ArrayItem([i \in 1..Len(list) |->
                 IF list[i].k = "undefined" THEN JsonNullEntry ELSE list[i]])

\* persistSandboxCheckpoints on localStorage, whose setItem may throw
persistCheckpoints(local, sandboxId, list, setItemOk) ==
    IF setItemOk
    THEN [local EXCEPT ![sandboxId] = jsonStringify(Slice(list, MAX_CHECKPOINTS))]
    ELSE local

\* loadSandboxCheckpoints on localStorage
loadCheckpoints(local, sandboxId) ==
    LET raw == local[sandboxId] IN
    IF raw.k = "null" THEN <<>>
    \* JSON.parse throws, caught
    ELSE IF raw.k = "text" THEN <<>>
    ELSE IF raw.k # "array" THEN <<>>
    ELSE Slice(SelectSeq(raw.items, isSandboxCheckpoint), MAX_CHECKPOINTS)

StoreLengths == {0, MAX_CHECKPOINTS, MaxStoreLen}

GoodList(n) == [i \in 1..n |-> StoreCheckpoint(i)]

\* lists of checkpoints, and lists with one element that is none, at the
\* head or at the end
StoreLists ==
    {GoodList(n) : n \in StoreLengths}
    \cup {[GoodList(MaxStoreLen) EXCEPT ![j] = bad] :
            j \in {1, MaxStoreLen}, bad \in {MalformedEntry, UndefinedEntry}}

\* what may be stored under a key before the first persist
StoredItems == {NoItem, NoJsonItem, NoArrayItem,
                ArrayItem(<<MalformedEntry, StoreCheckpoint(1)>>)}

StoreInit ==
    /\ storeLocal \in [SandboxIds -> StoredItems]
    /\ storePersisted = [s \in SandboxIds |-> [done |-> FALSE, list |-> <<>>]]
    /\ storeLoaded = NoLoad
    /\ storePc = "idle"
    /\ SseIdle /\ NormIdle /\ SessIdle /\ PageIdle
    /\ RouteIdle /\ ListIdle /\ DiffIdle /\ PoolIdle
    /\ MoreIdle

StorePersist ==
    /\ \E sandboxId \in SandboxIds, list \in StoreLists, setItemOk \in BOOLEAN :
        /\ storeLocal' = persistCheckpoints(storeLocal, sandboxId, list, setItemOk)
        /\ storePersisted' = [storePersisted EXCEPT
                                ![sandboxId] = [done |-> TRUE, list |-> list]]
    /\ storePc' = "persisted"
    /\ UNCHANGED storeLoaded
    /\ UNCHANGED nonStoreVars

StoreLoad ==
    /\ \E sandboxId \in SandboxIds :
        storeLoaded' = [sandboxId |-> sandboxId,
                        list |-> loadCheckpoints(storeLocal, sandboxId)]
    /\ storePc' = "loaded"
    /\ UNCHANGED <<storeLocal, storePersisted>>
    /\ UNCHANGED nonStoreVars

StoreNext == StorePersist \/ StoreLoad

StoreSpec == StoreInit /\ [][StoreNext]_vars

-----------------------------------------------------------------------------
(* Checkpoint store: properties *)

\* the checkpoints among the elements of a list, in their order
WellFormedOf(list) == SelectSeq(list, isSandboxCheckpoint)

\* C25: a load of sandbox id s after a persist of a list L under s returns
\* the checkpoints among the first 8 elements of L in their order; a persist
\* leaves the items of the other ids as they were; a load of an item that is
\* no JSON or no array returns the empty list.
C25_LoadAfterPersistRoundTrip ==
    [][/\ storePc' = "loaded" =>
            LET s == storeLoaded'.sandboxId IN
            /\ storePersisted[s].done =>
                 storeLoaded'.list =
                    WellFormedOf(Slice(storePersisted[s].list, MAX_CHECKPOINTS))
            /\ storeLocal[s] \in {NoJsonItem, NoArrayItem} =>
                 storeLoaded'.list = <<>>
       /\ storePc' = "persisted" =>
            \E s \in SandboxIds :
                /\ storePersisted'[s].done
                /\ \A t \in SandboxIds \ {s} :
                        /\ storeLocal'[t] = storeLocal[t]
                        /\ storePersisted'[t] = storePersisted[t]]_vars


-----------------------------------------------------------------------------
(* collectProjectFilesFromSandbox: the capture of a checkpoint's files     *)
(* A listed file is known by its index in allPaths. The read of a file is  *)
(* answered ok with a content, ok without a string content, not ok, or the *)
(* fetch rejects.                                                          *)

MaxListed == 3

\* contents of one, two and three bytes per character
CollectContents == {<<>>, <<"a">>, <<"a", "é">>, <<"€", "a">>}

FileReads == {"ok", "no_content", "not_ok", "threw"}

ListedFiles == [read : FileReads, content : CollectContents]

MaxFilesOptions == {NotGiven, 2}
MaxBytesOptions == {NotGiven, 3, 4}

\* the bytes of one character in UTF-8
utf8Bytes(ch) == IF ch = "a" THEN 1 ELSE IF ch = "é" THEN 2 ELSE 3

RECURSIVE utf8Length(_)
\* encoder.encode(content).length
utf8Length(content) ==
    IF content = <<>> THEN 0
    ELSE utf8Bytes(Head(content)) + utf8Length(Tail(content))

\* options?.maxFiles ?? 120
maxFiles ==
    IF collectOptions.maxFiles = NotGiven THEN DEFAULT_MAX_FILES
    ELSE collectOptions.maxFiles

\* options?.maxBytes ?? 2_000_000
maxBytes ==
    IF collectOptions.maxBytes = NotGiven THEN DEFAULT_MAX_BYTES
    ELSE collectOptions.maxBytes

\* allPaths.slice(0, maxFiles)
targetPaths == Slice(collectPaths, maxFiles)

\* typeof fileData.content === "string" ? fileData.content : ""
contentOf(file) == IF file.read = "ok" THEN file.content ELSE <<>>

\* totalBytes + fileBytes > maxBytes
overBudget(total, fileBytes) == total + fileBytes > maxBytes

CollectInit ==
    /\ collectListOk \in BOOLEAN
    /\ collectPaths \in SeqsUpTo(ListedFiles, MaxListed)
    /\ collectOptions \in [maxFiles : MaxFilesOptions, maxBytes : MaxBytesOptions]
    /\ collectIndex = 0 /\ collectFiles = <<>>
    /\ collectTotalBytes = 0 /\ collectTruncated = FALSE
    /\ collectPc = "list"
    /\ SseIdle /\ NormIdle /\ SessIdle /\ PageIdle
    /\ RouteIdle /\ ListIdle /\ DiffIdle /\ PoolIdle /\ StoreIdle
    /\ GenIdle /\ LimitIdle

\* the listing request and what is set up before the loop
CollectList ==
    /\ collectPc = "list"
    /\ IF collectListOk
       THEN /\ collectPc' = "read"
            /\ collectIndex' = 1
            /\ collectTruncated' = (Len(collectPaths) > Len(targetPaths))
       ELSE /\ collectPc' = "thrown"
            /\ UNCHANGED <<collectIndex, collectTruncated>>
    /\ UNCHANGED <<collectListOk, collectPaths, collectOptions, collectFiles,
                   collectTotalBytes>>
    /\ UNCHANGED nonCollectVars

\* one pass of the for loop over targetPaths
CollectRead ==
    /\ collectPc = "read"
    /\ collectIndex <= Len(targetPaths)
    /\ LET file == targetPaths[collectIndex]
           content == contentOf(file)
           fileBytes == utf8Length(content)
       IN IF file.read = "threw"
          THEN \* the await of fetchImpl rejects
               /\ collectPc' = "thrown"
               /\ UNCHANGED <<collectIndex, collectFiles, collectTotalBytes,
                              collectTruncated>>
          ELSE IF file.read = "not_ok"
          THEN \* continue
               /\ collectIndex' = collectIndex + 1
               /\ UNCHANGED <<collectPc, collectFiles, collectTotalBytes,
                              collectTruncated>>
          ELSE IF overBudget(collectTotalBytes, fileBytes)
          THEN \* break, return
               /\ collectTruncated' = TRUE
               /\ collectPc' = "returned"
               /\ UNCHANGED <<collectIndex, collectFiles, collectTotalBytes>>
          ELSE /\ collectTotalBytes' = collectTotalBytes + fileBytes
               /\ collectFiles' = Append(collectFiles,
                                         [path |-> collectIndex,
                                          content |-> content])
               /\ collectIndex' = collectIndex + 1
               /\ UNCHANGED <<collectPc, collectTruncated>>
    /\ UNCHANGED <<collectListOk, collectPaths, collectOptions>>
    /\ UNCHANGED nonCollectVars

\* the loop has passed the last target path: return
CollectReturn ==
    /\ collectPc = "read"
    /\ collectIndex > Len(targetPaths)
    /\ collectPc' = "returned"
    /\ UNCHANGED <<collectListOk, collectPaths, collectOptions, collectIndex,
                   collectFiles, collectTotalBytes, collectTruncated>>
    /\ UNCHANGED nonCollectVars

CollectNext == CollectList \/ CollectRead \/ CollectReturn

CollectSpec == CollectInit /\ [][CollectNext]_vars

\* ---- properties

\* the read of the listed file i gave a content
Readable(i) == collectPaths[i].read \in {"ok", "no_content"}

RECURSIVE BytesUpTo(_)
\* the bytes of the contents read among the first k listed files
BytesUpTo(k) ==
    IF k = 0 THEN 0
    ELSE BytesUpTo(k - 1)
         + (IF Readable(k) THEN utf8Length(contentOf(collectPaths[k])) ELSE 0)

\* a listed file is beyond the file cap
LeftOutByFileCap == Len(collectPaths) > maxFiles

\* a file within the cap was read and did not fit in the byte budget
LeftOutByByteBudget ==
    \E k \in 1..Len(targetPaths) : Readable(k) /\ BytesUpTo(k) > maxBytes

RECURSIVE SumOfSizes(_)
SumOfSizes(files) ==
    IF files = <<>> THEN 0
    ELSE utf8Length(Head(files).content) + SumOfSizes(Tail(files))

\* C35: a capture returns at most maxFiles files, whose UTF-8 sizes add up
\* to totalBytes, which is at most maxBytes; truncated is true exactly when
\* a listed file was left out because of the file cap or the byte budget;
\* the files returned are the files within the cap whose read gave a
\* content, up to the byte budget; and a read that fails, by an answer that
\* is not ok or by a rejected request, ends no capture: a capture throws
\* only when the listing fails.
C35_CaptureWithinCaps ==
    /\ collectPc = "returned" =>
        /\ Len(collectFiles) <= maxFiles
        /\ collectTotalBytes = SumOfSizes(collectFiles)
        /\ collectTotalBytes <= maxBytes
        /\ collectTruncated = (LeftOutByFileCap \/ LeftOutByByteBudget)
        /\ {collectFiles[i].path : i \in 1..Len(collectFiles)} =
              {k \in 1..Len(targetPaths) :
                    Readable(k) /\ BytesUpTo(k) <= maxBytes}
        /\ \A i \in 1..Len(collectFiles) :
              /\ collectFiles[i].content =
                    contentOf(collectPaths[collectFiles[i].path])
              /\ \A j \in 1..(i - 1) :
                    collectFiles[j].path < collectFiles[i].path
    /\ collectPc = "thrown" => ~collectListOk

-----------------------------------------------------------------------------
(* rateLimit: fixed windows per key                                        *)
(* Two keys are followed one by one; the buckets of all other keys are     *)
(* kept as their number and the one resetAt they share. Date.now() never   *)
(* goes back.                                                              *)

MAX_BUCKETS == 5000

MaxCalls == 5
MaxClock == 4

Limits == {1, 2}
WindowLengths == {1, 3}

\* buckets of other keys at the start: none, or enough for cleanupBuckets to
\* run once one or two more keys are added
OtherBucketCounts == {0, MAX_BUCKETS - 1, MAX_BUCKETS}

\* buckets.size
bucketsSize(bs, others) ==
    Cardinality({k \in LimitKeys : bs[k] # NoBucket}) + others.n

\* cleanupBuckets(now)
cleanupBuckets(bs, others, now) ==
    IF bucketsSize(bs, others) <= MAX_BUCKETS
    THEN [buckets |-> bs, others |-> others]
    ELSE [buckets |-> [k \in LimitKeys |->
                         IF bs[k] # NoBucket /\ bs[k].resetAt <= now
                         THEN NoBucket ELSE bs[k]],
          others |-> IF others.resetAt <= now
                     THEN [n |-> 0, resetAt |-> 0] ELSE others]

\* the test that admits one call more than the limit
isOverLimit_Strict(count, limit) == count > limit

\* existing.count >= options.limit
isOverLimit(count, limit) == count >= limit

LimitResult(limited, remaining, resetAt) ==
    [limited |-> limited, limit |-> limitOptions.limit,
     remaining |-> remaining, resetAt |-> resetAt]

LimitInit ==
    /\ buckets = [k \in LimitKeys |-> NoBucket]
    /\ \E n \in OtherBucketCounts :
         otherBuckets = IF n = 0 THEN [n |-> 0, resetAt |-> 0]
                        ELSE [n |-> n, resetAt |-> 2]
    /\ limitOptions \in [limit : Limits, windowMs : WindowLengths]
    /\ limitNow = 0
    /\ limitCalls = <<>>
    /\ SseIdle /\ NormIdle /\ SessIdle /\ PageIdle
    /\ RouteIdle /\ ListIdle /\ DiffIdle /\ PoolIdle /\ StoreIdle
    /\ CollectIdle /\ GenIdle

\* rateLimit(key, options) at the time now
rateLimit(key, now) ==
    LET cleaned == cleanupBuckets(buckets, otherBuckets, now)
        existing == cleaned.buckets[key]
        limit == limitOptions.limit
    IN /\ otherBuckets' = cleaned.others
       /\ limitNow' = now
       /\ IF existing = NoBucket \/ existing.resetAt <= now
          THEN LET resetAt == now + limitOptions.windowMs IN
               /\ buckets' = [cleaned.buckets EXCEPT
                                ![key] = [count |-> 1, resetAt |-> resetAt]]
               /\ limitCalls' = Append(limitCalls,
                    [key |-> key, now |-> now,
                     result |-> LimitResult(FALSE, limit - 1, resetAt)])
          ELSE IF isOverLimit(existing.count, limit)
          THEN /\ buckets' = cleaned.buckets
               /\ limitCalls' = Append(limitCalls,
                    [key |-> key, now |-> now,
                     result |-> LimitResult(TRUE, 0, existing.resetAt)])
          ELSE /\ buckets' = [cleaned.buckets EXCEPT
                                ![key].count = existing.count + 1]
               /\ limitCalls' = Append(limitCalls,
                    [key |-> key, now |-> now,
                     result |-> LimitResult(FALSE,
                                    Max(limit - (existing.count + 1), 0),
                                    existing.resetAt)])
       /\ UNCHANGED limitOptions
       /\ UNCHANGED nonLimitVars

LimitCall ==
    /\ Len(limitCalls) < MaxCalls
    /\ \E key \in LimitKeys, now \in limitNow..MaxClock : rateLimit(key, now)

LimitNext == LimitCall

LimitSpec == LimitInit /\ [][LimitNext]_vars

\* ---- properties, stated on the calls made so far

\* the last call for the key of call i in front of call i, 0 for none
PreviousCall(i) ==
    LET earlier == {j \in 1..(i - 1) : limitCalls[j].key = limitCalls[i].key}
    IN IF earlier = {} THEN 0
       ELSE CHOOSE j \in earlier : \A l \in earlier : l <= j

RECURSIVE WindowOf(_)
\* the call that opened the window call i falls in: call i itself when it
\* is the first for its key or comes at or after the resetAt of the window
\* of the call before
WindowOf(i) ==
    LET j == PreviousCall(i) IN
    IF j = 0 THEN i
    ELSE LET o == WindowOf(j) IN
         IF limitCalls[i].now >= limitCalls[o].now + limitOptions.windowMs
         THEN i ELSE o

\* the calls admitted in the window of call i up to call i
AdmittedUpTo(i) ==
    Cardinality({j \in 1..i : /\ limitCalls[j].key = limitCalls[i].key
                              /\ WindowOf(j) = WindowOf(i)
                              /\ ~limitCalls[j].result.limited})

\* the last call for a key, 0 for none
LastCall(key) ==
    LET mine == {j \in 1..Len(limitCalls) : limitCalls[j].key = key}
    IN IF mine = {} THEN 0 ELSE CHOOSE j \in mine : \A l \in mine : l <= j

\* C40: of the calls for a key in one window, from the call that opens it
\* until its resetAt, at most limit are admitted; remaining is never
\* negative and is limit less the calls admitted so far in the window; the
\* first call for a key and a call at or after resetAt open a window with
\* count 1, are admitted and report resetAt = now + windowMs; and the
\* bucket of a key holds the count of the key's own calls in its window
\* whatever calls were made for other keys, or is gone once that window is
\* over.
C40_AtMostLimitPerWindow ==
    /\ \A i \in 1..Len(limitCalls) :
         LET c == limitCalls[i]
             o == WindowOf(i)
         IN /\ AdmittedUpTo(i) <= limitOptions.limit
            /\ c.result.remaining >= 0
            /\ c.result.remaining = limitOptions.limit - AdmittedUpTo(i)
            /\ c.result.resetAt = limitCalls[o].now + limitOptions.windowMs
            /\ c.result.limit = limitOptions.limit
            /\ o = i => ~c.result.limited /\ AdmittedUpTo(i) = 1
            /\ c.result.limited => AdmittedUpTo(i) = limitOptions.limit
    /\ \A key \in LimitKeys :
         LET i == LastCall(key) IN
         IF i = 0 THEN buckets[key] = NoBucket
         ELSE \/ buckets[key] =
                    [count |-> AdmittedUpTo(i),
                     resetAt |-> limitCalls[i].result.resetAt]
              \/ /\ buckets[key] = NoBucket
                 /\ limitCalls[i].result.resetAt <= limitNow

\* a window of limit 2 in which two calls were admitted and a third was
\* not, calls for the other key in between, and then a new window
C40_Witness ==
    /\ Len(limitCalls) = MaxCalls
    /\ limitOptions.limit = 2
    /\ limitCalls[1].key = "k1" /\ limitCalls[2].key = "k2"
    /\ limitCalls[3].key = "k1" /\ limitCalls[4].key = "k1"
    /\ limitCalls[5].key = "k1"
    /\ ~limitCalls[3].result.limited
    /\ limitCalls[4].result.limited
    /\ WindowOf(5) = 5
    /\ buckets["k1"].count = 1 /\ buckets["k2"].count = 1

-----------------------------------------------------------------------------
(* Generation route: the event stream of one request                       *)
(* A data event brings whole lines. A call of a data handler and the async *)
(* function of the route run from one await to the next without            *)
(* interruption. A write hands its frame to the writer at once; its        *)
(* promise resolves later, oldest write first, and the code awaiting it    *)
(* goes on as soon as it resolves. Data events may come after the exit     *)
(* event, the streams of a child being drained after it exited.            *)

MaxDataEvents == 2

PreviewUrlValue == <<"https://preview">>

\* the lines of one stdout data event
StdoutChunks ==
    {<<"progress">>, <<"preview">>, <<"blank", "ai">>,
     <<"progress", "progress", "progress">>, <<"internal", "ai_bad">>}

\* one stderr data event with "Error" or "Failed" in it, or without
StderrChunks == {<<"stderr_error">>, <<"stderr_debug">>}

\* lines for which a handler writes nothing
IsSilentLine(line) == line \in {"blank", "ai_bad", "internal", "stderr_debug"}

RECURSIVE skipSilent(_)
skipSilent(lines) ==
    IF lines # <<>> /\ IsSilentLine(Head(lines))
    THEN skipSilent(Tail(lines)) ELSE lines

\* the type of the frame a handler writes for a line
frameOf(line) ==
    IF line = "ai" THEN "ai_message"
    ELSE IF line = "stderr_error" THEN "error"
    ELSE "progress"

\* the async function of the route, the owner of a write
MainOwner == 0

NoHandler == [lines |-> <<>>, waiting |-> FALSE, resume |-> "none"]

RECURSIVE runHandler(_, _, _, _)
\* a handler call from where it stands to its next await or its end: what
\* follows the write it awaited (the preview URL of the line is kept), then
\* the lines up to the next write; a write on a closed writer rejects, which
\* the try around the ai_message write swallows and which ends the handler
\* otherwise. writes: the writes not yet resolved.
runHandler(id, lines, resume, writes) ==
    LET url == IF resume = "preview" THEN PreviewUrlValue ELSE genPreviewUrl
        ls == skipSilent(lines)
    IN IF ls = <<>>
       THEN [handler |-> NoHandler, out |-> genOut, writes |-> writes,
             url |-> url]
       ELSE IF genClosed
       THEN IF Head(ls) = "ai"
            THEN runHandler(id, Tail(ls), resume, writes)
            ELSE [handler |-> NoHandler, out |-> genOut, writes |-> writes,
                  url |-> url]
       ELSE [handler |-> [lines |-> Tail(ls), waiting |-> TRUE,
                          resume |-> IF Head(ls) = "preview" THEN "preview"
                                     ELSE "none"],
             out |-> Append(genOut, frameOf(Head(ls))),
             writes |-> Append(writes, id),
             url |-> url]

GenInit ==
    /\ genStdout \in SeqsUpTo(StdoutChunks, MaxDataEvents)
    /\ genStderr \in SeqsUpTo(StderrChunks, 1)
    /\ genChild = "running"
    /\ genHandlers = <<>>
    /\ genMain = "await_exit"
    /\ genPreviewUrl = <<>>
    /\ genOut = <<>>
    /\ genWrites = <<>>
    /\ genClosed = FALSE
    /\ SseIdle /\ NormIdle /\ SessIdle /\ PageIdle
    /\ RouteIdle /\ ListIdle /\ DiffIdle /\ PoolIdle /\ StoreIdle
    /\ CollectIdle /\ LimitIdle

\* child.stdout.on("data"): a new call of the handler, up to its first await
GenStdoutData ==
    /\ genStdout # <<>>
    /\ LET id == Len(genHandlers) + 1
           r == runHandler(id, Head(genStdout), "none", genWrites)
       IN /\ genHandlers' = Append(genHandlers, r.handler)
          /\ genOut' = r.out
          /\ genWrites' = r.writes
          /\ genPreviewUrl' = r.url
    /\ genStdout' = Tail(genStdout)
    /\ UNCHANGED <<genStderr, genChild, genMain, genClosed>>
    /\ UNCHANGED nonGenVars

\* child.stderr.on("data")
GenStderrData ==
    /\ genStderr # <<>>
    /\ LET id == Len(genHandlers) + 1
           r == runHandler(id, Head(genStderr), "none", genWrites)
       IN /\ genHandlers' = Append(genHandlers, r.handler)
          /\ genOut' = r.out
          /\ genWrites' = r.writes
          /\ genPreviewUrl' = r.url
    /\ genStderr' = Tail(genStderr)
    /\ UNCHANGED <<genStdout, genChild, genMain, genClosed>>
    /\ UNCHANGED nonGenVars

\* the oldest write resolves and its owner goes on: a handler with its next
\* lines; the async function of the route with [DONE] behind its complete
\* or error frame, and with the close in finally behind [DONE]
GenWriteResolved ==
    /\ genWrites # <<>>
    /\ LET owner == Head(genWrites)
           rest == Tail(genWrites)
       IN IF owner = MainOwner
          THEN IF genMain \in {"await_complete", "await_error"}
               THEN /\ genOut' = Append(genOut, "[DONE]")
                    /\ genWrites' = Append(rest, MainOwner)
                    /\ genMain' = "await_done"
                    /\ UNCHANGED <<genHandlers, genPreviewUrl, genClosed>>
               ELSE /\ genClosed' = TRUE
                    /\ genMain' = "closed"
                    /\ genWrites' = rest
                    /\ UNCHANGED <<genHandlers, genPreviewUrl, genOut>>
          ELSE LET h == genHandlers[owner]
                   r == runHandler(owner, h.lines, h.resume, rest)
               IN /\ genHandlers' = [genHandlers EXCEPT ![owner] = r.handler]
                  /\ genOut' = r.out
                  /\ genWrites' = r.writes
                  /\ genPreviewUrl' = r.url
                  /\ UNCHANGED <<genMain, genClosed>>
    /\ UNCHANGED <<genStdout, genStderr, genChild>>
    /\ UNCHANGED nonGenVars

\* child.on("exit"): the promise the route awaits resolves or rejects and
\* the route goes on: the complete frame when a preview URL is known, else
\* the throw, and in catch the error frame
GenExit ==
    /\ genChild = "running"
    /\ \E code \in {0, 1} :
        /\ genChild' = IF code = 0 THEN "exit0" ELSE "exit1"
        /\ IF code = 0 /\ genPreviewUrl # <<>>
           THEN /\ genOut' = Append(genOut, "complete")
                /\ genMain' = "await_complete"
           ELSE /\ genOut' = Append(genOut, "error")
                /\ genMain' = "await_error"
        /\ genWrites' = Append(genWrites, MainOwner)
    /\ UNCHANGED <<genStdout, genStderr, genHandlers, genPreviewUrl, genClosed>>
    /\ UNCHANGED nonGenVars

GenNext ==
    \/ GenStdoutData
    \/ GenStderrData
    \/ GenWriteResolved
    \/ GenExit

GenSpec == GenInit /\ [][GenNext]_vars

\* ---- properties

IsEventFrame(frame) == frame \in {"progress", "ai_message", "error"}

\* C39: the stream carries at most one complete frame, and only when a
\* preview URL is known; a stream that was closed ends with [DONE]; and
\* behind [DONE] there is no progress, message or error frame, whatever the
\* order of the data handlers, their writes and the exit of the child.
C39_NothingAfterDone ==
    /\ Cardinality({i \in 1..Len(genOut) : genOut[i] = "complete"}) <= 1
    /\ (\E i \in 1..Len(genOut) : genOut[i] = "complete") => genPreviewUrl # <<>>
    /\ genClosed => genOut # <<>> /\ genOut[Len(genOut)] = "[DONE]"
    /\ \A i, j \in 1..Len(genOut) :
         (i < j /\ genOut[i] = "[DONE]") => ~IsEventFrame(genOut[j])

====
